---- MODULE Spec2Model ----
(***************************************************************************)
(* The reactivity rule of eslint-plugin-solid (dist/index.mjs, lines       *)
(* 1778-2538): the scope stack, the registry of reactive bindings, the     *)
(* tracked-scope classifier and the scope-exit validator, driven by        *)
(* ESLint's depth-first walk of a syntax tree.                             *)
(*                                                                         *)
(* A syntax tree is a sequence of node records in source (pre-order)       *)
(* order; node 1 is the Program and parent = 0 stands for null.  An        *)
(* Identifier node is a reference of the variable `var`; `ptype` is the    *)
(* type of its parent in the real tree.  In the trees of Parse and         *)
(* ParseCaptures a parent that has no handler and is never registered as   *)
(* a tracked scope (BinaryExpression, TemplateLiteral, the CallExpression  *)
(* of `count()`, ...) is not a node of the sequence, it only appears as    *)
(* the `ptype` of the identifier.  The trees of ParseContexts and          *)
(* ParseHooks carry these parents as nodes of their own, since there the   *)
(* classifier may register them or walk through them.                      *)
(***************************************************************************)
EXTENDS Integers, Sequences, FiniteSets, TLC

VARIABLES
    tree,           \* the syntax tree under analysis (never changes)
    nodeQueue,      \* the handler calls of the walk, in order (built by the
                    \* linter when the run starts)
    pos,            \* 0 while the provider parses; then the index of the next
                    \* handler call in nodeQueue
    importMap,      \* trackImports: canonical name -> local name
    scopeStack,     \* ScopeStack (the array part): sequence of ScopeStackItem
    syncCallbacks,  \* ScopeStack.syncCallbacks
    signals,        \* ScopeStack.signals
    props,          \* ScopeStack.props
    diagnostics,    \* every context.report call, in order
    fault,          \* "none", or the Error thrown out of a handler
    registered,     \* history: every binding ever pushed, in order
    yielded,        \* history: every {reference, declarationScope} yielded by a drain
    popped,         \* history: every frame taken off the stack, in order
    merged,         \* history: every merge of two declaration scopes, in order
    runs            \* the outcome of every earlier run of the rule on the tree

vars == <<tree, nodeQueue, pos, importMap, scopeStack, syncCallbacks, signals, props,
          diagnostics, fault, registered, yielded, popped, merged, runs>>

-----------------------------------------------------------------------------
(* Bounds of the family of syntax trees.                                   *)

\* statements of a tree (a statement is a child of the Program or of a function body)
MaxStatements == 5
\* functions of a tree
MaxFunctions == 2
\* uses (references other than the ones in binding patterns) of a tree
MaxUses == 2
\* uses of a tree that are not invoked reads
MaxOtherUses == 1
\* declarators and destructuring assignments that bind the factory variable
MaxFactoryDecls == 2
\* runs of the rule on one tree
MaxRuns == 2
\* statements of a tree of the second family (captures and callbacks)
MaxCaptureStatements == 2
\* statements of a tree of the third family (reads in every context)
MaxContextStatements == 3
\* arguments of the hook call of a tree of the fourth family
MaxHookArguments == 2

-----------------------------------------------------------------------------
(* Node kinds (lines 67-71).                                               *)

FUNCTION_TYPES == {"FunctionExpression", "ArrowFunctionExpression", "FunctionDeclaration"}

PROGRAM_OR_FUNCTION_TYPES == {"Program"} \cup FUNCTION_TYPES

\* the specifiers of the tree's `import { ... } from "solid-js"` line,
\* each imported under its own name
SolidImports == {"createSignal", "createStore", "createMemo", "createEffect",
                 "batch", "untrack", "onMount", "useTransition", "createSelector",
                 "mergeProps"}

NoNode == [type |-> "", parent |-> 0, var |-> "", callee |-> "", member |-> FALSE,
           idType |-> "", ptype |-> "", operator |-> "", write |-> FALSE,
           async |-> FALSE, name |-> <<>>]

ProgramNode == [NoNode EXCEPT !.type = "Program"]

ImportNode == [NoNode EXCEPT !.type = "ImportDeclaration", !.parent = 1]

\* `const [v] = ...` / `const v = ...`; its only child is the initializer
DeclaratorNode(p, v, idType) ==
    [NoNode EXCEPT !.type = "VariableDeclarator", !.parent = p, !.var = v,
                   !.idType = idType]

\* `[v] = callee(...)`: a destructuring assignment of a factory call; its left
\* side holds the write reference of v that is its only child node
AssignmentNode(p, v, callee) ==
    [NoNode EXCEPT !.type = "AssignmentExpression", !.parent = p, !.var = v,
                   !.idType = "ArrayPattern", !.callee = callee]

\* `callee(args)` or `x.callee(args)`; its children are the arguments
CallNode(p, callee, member) ==
    [NoNode EXCEPT !.type = "CallExpression", !.parent = p, !.callee = callee,
                   !.member = member]

ArrowNode(p, async) ==
    [NoNode EXCEPT !.type = "ArrowFunctionExpression", !.parent = p, !.async = async]

\* `function v() {...}`
FunctionDeclarationNode(p, v) ==
    [NoNode EXCEPT !.type = "FunctionDeclaration", !.parent = p, !.var = v]

IdentifierNode(p, v, ptype, operator, write) ==
    [NoNode EXCEPT !.type = "Identifier", !.parent = p, !.var = v, !.ptype = ptype,
                   !.operator = operator, !.write = write]

\* the object of `v.name`: name is parent.property.name, a sequence of characters
MemberObjectNode(p, v, operator, name) ==
    [IdentifierNode(p, v, "MemberExpression", operator, FALSE) EXCEPT !.name = name]

\* the callee of `v()`, a child of the call node
CalleeNode(p, v) == IdentifierNode(p, v, "CallExpression", "callee", FALSE)

\* an expression that is no call and no function: a member access, a binary or
\* unary expression, a template literal, an object literal
ExpressionNode(p, type) == [NoNode EXCEPT !.type = type, !.parent = p]

\* `key: value` of an object literal; its only child is the value
PropertyNode(p) == [NoNode EXCEPT !.type = "Property", !.parent = p]

\* `<name ...>...</name>`; its children are its attributes and its children
JSXElementNode(p, name) == [NoNode EXCEPT !.type = "JSXElement", !.parent = p, !.name = name]

\* `name={...}`; its only child is the container
JSXAttributeNode(p, name) ==
    [NoNode EXCEPT !.type = "JSXAttribute", !.parent = p, !.name = name]

\* `{expression}`; its only child is the expression
JSXExpressionContainerNode(p) ==
    [NoNode EXCEPT !.type = "JSXExpressionContainer", !.parent = p]

\* `{...argument}`; its only child is the argument
JSXSpreadAttributeNode(p) == [NoNode EXCEPT !.type = "JSXSpreadAttribute", !.parent = p]

-----------------------------------------------------------------------------
(* Names are sequences of characters; the regular expressions of the rule  *)
(* (lines 9, 2144, 2309, 2313) are tests on them.                          *)

UpperCase == {"A", "B", "C", "D", "E", "F", "G", "H", "I", "J", "K", "L", "M", "N",
              "O", "P", "Q", "R", "S", "T", "U", "V", "W", "X", "Y", "Z"}

LowerCase == {"a", "b", "c", "d", "e", "f", "g", "h", "i", "j", "k", "l", "m", "n",
              "o", "p", "q", "r", "s", "t", "u", "v", "w", "x", "y", "z"}

StartsWith(name, prefix) ==
    Len(name) >= Len(prefix) /\ SubSeq(name, 1, Len(prefix)) = prefix

EndsWith(name, suffix) ==
    /\ Len(name) >= Len(suffix)
    /\ SubSeq(name, Len(name) - Len(suffix) + 1, Len(name)) = suffix

\* /^prefix[A-Z]/.test(name)
StartsWithThenUpperCase(name, prefix) ==
    /\ StartsWith(name, prefix)
    /\ Len(name) > Len(prefix)
    /\ name[Len(prefix) + 1] \in UpperCase

\* isDOMElementName: /^[a-z]/ (lines 9-10)
isDOMElementName(name) == Len(name) >= 1 /\ name[1] \in LowerCase

\* /^on[:A-Z]/ (line 2309)
IsEventHandlerName(name) ==
    /\ StartsWith(name, <<"o", "n">>)
    /\ Len(name) >= 3
    /\ name[3] \in {":"} \cup UpperCase

\* a test that takes every name with one of the prefixes
StartsWithInitialDefaultStatic(name) ==
    \E prefix \in {<<"i", "n", "i", "t", "i", "a", "l">>,
                   <<"d", "e", "f", "a", "u", "l", "t">>,
                   <<"s", "t", "a", "t", "i", "c">>} : StartsWith(name, prefix)

\* /^(?:initial|default|static)[A-Z]/ (line 2144)
IsInitialDefaultStatic(name) ==
    \E prefix \in {<<"i", "n", "i", "t", "i", "a", "l">>,
                   <<"d", "e", "f", "a", "u", "l", "t">>,
                   <<"s", "t", "a", "t", "i", "c">>} :
        StartsWithThenUpperCase(name, prefix)

-----------------------------------------------------------------------------
(* Reading the tree (lines 25-38, 67-84).                                  *)

isFunctionNode(n) == n # 0 /\ tree[n].type \in FUNCTION_TYPES

isProgramOrFunctionNode(n) == n # 0 /\ tree[n].type \in PROGRAM_OR_FUNCTION_TYPES

\* find(node, isProgramOrFunctionNode): node itself or its nearest such ancestor
RECURSIVE find(_)
find(n) ==
    IF n = 0 THEN 0
    ELSE IF isProgramOrFunctionNode(n) THEN n
    ELSE find(tree[n].parent)

\* findParent(node, isProgramOrFunctionNode)
findParent(n) == IF tree[n].parent # 0 THEN find(tree[n].parent) ELSE 0

\* find(node, n2 => n2 === scope || n2 === target)
RECURSIVE findScopeOrTarget(_, _, _)
findScopeOrTarget(n, scope, target) ==
    IF n = 0 THEN 0
    ELSE IF n = scope \/ n = target THEN n
    ELSE findScopeOrTarget(tree[n].parent, scope, target)

\* findInScope(node, scope, node2 => node2 === target)
findInScope(node, scope, target) ==
    LET found == findScopeOrTarget(node, scope, target)
    IN  IF found = scope /\ node # target THEN 0 ELSE found

ChildrenOf(p) == {i \in 1..Len(tree) : tree[i].parent = p}

\* the n-th child of p in source order, 0 when there is none (arguments[n - 1],
\* or the init of a declarator)
NthChild(p, n) ==
    IF Cardinality(ChildrenOf(p)) < n THEN 0
    ELSE CHOOSE c \in ChildrenOf(p) :
             Cardinality({d \in ChildrenOf(p) : d < c}) = n - 1

\* node.arguments of a call: its children other than the callee
ArgumentsOf(p) == {c \in ChildrenOf(p) : tree[c].operator # "callee"}

\* arguments[n - 1], 0 when there is none
NthArgument(p, n) ==
    IF Cardinality(ArgumentsOf(p)) < n THEN 0
    ELSE CHOOSE c \in ArgumentsOf(p) :
             Cardinality({d \in ArgumentsOf(p) : d < c}) = n - 1

RECURSIVE PathToRoot(_)
PathToRoot(n) == IF n = 0 THEN {} ELSE {n} \cup PathToRoot(tree[n].parent)

-----------------------------------------------------------------------------
(* The scope manager of the provider: the references of a variable, in     *)
(* source order.  The id of a declarator with an initializer is a          *)
(* reference with init = true; it is located at the declarator node.       *)

IsReference(n, v) ==
    /\ tree[n].var = v
    /\ tree[n].type \in {"Identifier", "VariableDeclarator"}

RECURSIVE ReferencesFrom(_, _)
ReferencesFrom(v, i) ==
    IF i > Len(tree) THEN <<>>
    ELSE (IF IsReference(i, v) THEN <<i>> ELSE <<>>) \o ReferencesFrom(v, i + 1)

\* variable.references
ReferencesOf(v) == ReferencesFrom(v, 1)

\* reference.init
init(r) == tree[r].type = "VariableDeclarator"

\* reference.isWrite()
isWrite(r) == tree[r].type = "VariableDeclarator" \/ tree[r].write

\* variable.defs[0].node: the first declaration of v, 0 for a variable that is
\* declared without initializer (`let v;`, not a node of the tree)
DefinitionOf(v) ==
    LET ds == {i \in 1..Len(tree) :
                  /\ tree[i].var = v
                  /\ tree[i].type \in {"VariableDeclarator", "FunctionDeclaration"}}
    IN  IF ds = {} THEN 0 ELSE CHOOSE d \in ds : \A e \in ds : d <= e

-----------------------------------------------------------------------------
(* ESLint's walk: the handlers of lines 2463-2536 in call order.  Enter    *)
(* handlers run in pre-order, the ":exit" handlers of functions and of the *)
(* Program in post-order.                                                  *)

EnterHandled == {"ImportDeclaration", "VariableDeclarator", "AssignmentExpression",
                 "CallExpression", "JSXExpressionContainer", "JSXSpreadAttribute",
                 "JSXElement"} \cup PROGRAM_OR_FUNCTION_TYPES

RECURSIVE Visit(_), VisitChildren(_, _)
Visit(n) ==
    (IF tree[n].type \in EnterHandled THEN <<[node |-> n, exit |-> FALSE]>> ELSE <<>>)
    \o VisitChildren(n, n + 1)
    \o (IF isProgramOrFunctionNode(n) THEN <<[node |-> n, exit |-> TRUE]>> ELSE <<>>)

VisitChildren(p, i) ==
    IF i > Len(tree) THEN <<>>
    ELSE (IF tree[i].parent = p THEN Visit(i) ELSE <<>>) \o VisitChildren(p, i + 1)

Walk == Visit(1)

-----------------------------------------------------------------------------
(* The state of one run of the rule, as a record: handlers are operators   *)
(* from such a record to the record they leave behind.                     *)

RuleState ==
    [stack |-> scopeStack, sync |-> syncCallbacks, signals |-> signals,
     props |-> props, diags |-> diagnostics, fault |-> fault,
     registered |-> registered, yielded |-> yielded, popped |-> popped,
     merged |-> merged, at |-> pos]

\* new ScopeStackItem(node) (lines 1778-1795)
ScopeStackItem(node) ==
    [node |-> node, trackedScopes |-> <<>>, unnamedDerivedSignals |-> <<>>,
     hasJSX |-> FALSE]

\* currentScope(), parentScope() (lines 1799-1800)
currentScope(s) == s.stack[Len(s.stack)]

parentScope(s) == s.stack[Len(s.stack) - 1]

\* context.report
report(s, messageId, node, where) ==
    [s EXCEPT !.diags = Append(@, [messageId |-> messageId, node |-> node,
                                   where |-> where])]

\* throw new Error(...)
throw(s, message) == [s EXCEPT !.fault = message]

\* trackImports().matchImport (lines 97-100)
matchImport(imports, str) ==
    \E i \in imports : i \in DOMAIN importMap /\ importMap[i] = str

-----------------------------------------------------------------------------
(* ScopeStack: the binding registry (lines 1796-1895).                     *)

\* a search from the bottom of the stack (the loop of line 1807 run upwards):
\* the outermost of the two
findShallowestDeclarationScope(s, a, b) ==
    IF a = b THEN a
    ELSE LET hits == {i \in 1..Len(s.stack) : s.stack[i].node \in {a, b}}
         IN  IF hits = {} THEN 0
             ELSE s.stack[CHOOSE i \in hits : \A j \in hits : i <= j].node

\* a search for the first scope only (the test of b in line 1809 left out)
findFirstDeclarationScope(s, a, b) ==
    IF a = b \/ \E i \in 1..Len(s.stack) : s.stack[i].node = a THEN a ELSE 0

\* a search that throws unless both scopes are on the stack
findRelatedDeclarationScope(s, a, b) ==
    LET hits == {i \in 1..Len(s.stack) : s.stack[i].node \in {a, b}}
    IN  IF Cardinality(hits) < Cardinality({a, b}) THEN 0
        ELSE s.stack[CHOOSE i \in hits : \A j \in hits : j <= i].node

\* findDeepestDeclarationScope (lines 1804-1814); 0 stands for the throw
findDeepestDeclarationScope(s, a, b) ==
    IF a = b THEN a
    ELSE LET hits == {i \in 1..Len(s.stack) : s.stack[i].node \in {a, b}}
         IN  IF hits = {} THEN 0
             ELSE s.stack[CHOOSE i \in hits : \A j \in hits : j <= i].node

NonInitReferences(variable) == SelectSeq(ReferencesOf(variable), LAMBDA r : ~init(r))

\* a binding entry; id is its index in the history of registrations
Binding(s, variable, declarationScope) ==
    [variable |-> variable, references |-> NonInitReferences(variable),
     declarationScope |-> declarationScope, id |-> Len(s.registered) + 1]

Registration(list, b, at) ==
    [list |-> list, variable |-> b.variable, references |-> b.references,
     declarationScope |-> b.declarationScope, at |-> at]

\* pushSignal (lines 1821-1827)
pushSignal(s, variable, declarationScope) ==
    LET b == Binding(s, variable, declarationScope)
    IN  [s EXCEPT !.signals = Append(@, b),
                  !.registered = Append(@, Registration("signals", b, s.at))]

\* pushProps (lines 1846-1852)
pushProps(s, variable, declarationScope) ==
    LET b == Binding(s, variable, declarationScope)
    IN  [s EXCEPT !.props = Append(@, b),
                  !.registered = Append(@, Registration("props", b, s.at))]

\* a merge that registers nothing for a variable it does not know (line 1837
\* left out)
mergeKnownSignal(s, variable, declarationScope) ==
    LET found == {i \in 1..Len(s.signals) : s.signals[i].variable = variable}
    IN  IF found = {} THEN s
        ELSE LET i == CHOOSE i \in found : \A j \in found : i <= j
                 deepest == findDeepestDeclarationScope(
                                s, s.signals[i].declarationScope, declarationScope)
             IN  IF deepest = 0 THEN throw(s, "This should never happen")
                 ELSE [s EXCEPT !.signals[i].declarationScope = deepest]

\* the call of findDeepestDeclarationScope(a, b) of line 1839, as the history
\* keeps it: the nodes of the frames on the stack and what the call returned
Merge(s, variable, a, b) ==
    [variable |-> variable, a |-> a, b |-> b,
     stack |-> [i \in 1..Len(s.stack) |-> s.stack[i].node],
     deepest |-> findDeepestDeclarationScope(s, a, b), at |-> s.at]

\* lines 1838-1842: the binding takes the scope the call returned
mergeDeclarationScope(s, i, m) ==
    IF m.deepest = 0
        THEN throw([s EXCEPT !.merged = Append(@, m)], "This should never happen")
        ELSE [s EXCEPT !.signals[i].declarationScope = m.deepest,
                       !.merged = Append(@, m)]

\* pushUniqueSignal (lines 1834-1844)
pushUniqueSignal(s, variable, declarationScope) ==
    LET found == {i \in 1..Len(s.signals) : s.signals[i].variable = variable}
    IN  IF found = {} THEN pushSignal(s, variable, declarationScope)
        ELSE LET i == CHOOSE i \in found : \A j \in found : i <= j
             IN  mergeDeclarationScope(
                     s, i, Merge(s, variable, s.signals[i].declarationScope,
                                 declarationScope))

\* a lookup that stops at the nearest function, synchronous callback or not
\* (the loop of lines 1890-1892 left out)
keepParentFunction(s, parentFunction) == parentFunction

\* the while loop of isReferenceInCurrentScope (lines 1890-1892)
RECURSIVE skipSyncCallbacks(_, _)
skipSyncCallbacks(s, parentFunction) ==
    IF isFunctionNode(parentFunction) /\ parentFunction \in s.sync
        THEN skipSyncCallbacks(s, findParent(parentFunction))
        ELSE parentFunction

\* isReferenceInCurrentScope (lines 1888-1894)
isReferenceInCurrentScope(s, reference) ==
    skipSyncCallbacks(s, findParent(reference)) = currentScope(s).node

-----------------------------------------------------------------------------
(* Tracked scopes (lines 1980-2047).                                       *)

\* a match that knows expression entries only (the cases of lines 1982-1984
\* left out)
matchExpressionScope(s, trackedScope, node) ==
    /\ trackedScope.expect = "expression"
    /\ findInScope(node, currentScope(s).node, trackedScope.node) # 0

\* a match by identity for every kind of entry (the search of lines 1985-1989
\* left out)
matchIdenticalNode(s, trackedScope, node) == node = trackedScope.node

\* matchTrackedScope (lines 1980-1990)
matchTrackedScope(s, trackedScope, node) ==
    IF trackedScope.expect \in {"function", "called-function"}
        THEN node = trackedScope.node
        ELSE findInScope(node, currentScope(s).node, trackedScope.node) # 0

\* unnamedDerivedSignals kept as a list: a function is added once for each
\* reference that crosses its boundary
appendUnnamedDerivedSignal(s) ==
    [s EXCEPT !.stack[Len(s.stack) - 1].unnamedDerivedSignals =
                  Append(@, currentScope(s).node)]

\* pushUnnamedDerivedSignal (lines 2019-2022): a Set, kept in insertion order
pushUnnamedDerivedSignal(s) ==
    LET node == currentScope(s).node
        p == Len(s.stack) - 1
        set == s.stack[p].unnamedDerivedSignals
    IN  IF \E k \in 1..Len(set) : set[k] = node THEN s
        ELSE [s EXCEPT !.stack[p].unnamedDerivedSignals = Append(@, node)]

\* a promotion that treats every function as a nameless one (the branches of
\* lines 2023-2042 left out)
promoteAsUnnamed(s, declarationScope) ==
    IF Len(s.stack) < 2 \/ ~isFunctionNode(currentScope(s).node)
        THEN throw(s, "this shouldn't happen!")
        ELSE pushUnnamedDerivedSignal(s)

\* the promotion of the exiting function to a derived signal (lines 2015-2045)
promoteCurrentFunction(s, declarationScope) ==
    LET currentScopeNode == currentScope(s).node
        parent == tree[currentScopeNode].parent
    IN  IF Len(s.stack) < 2 \/ ~isFunctionNode(currentScopeNode)
            THEN throw(s, "this shouldn't happen!")
        ELSE IF tree[currentScopeNode].type = "FunctionDeclaration"
            THEN pushUniqueSignal(s, tree[currentScopeNode].var, declarationScope)
        ELSE IF parent # 0 /\ tree[parent].type = "VariableDeclarator"
            THEN pushUniqueSignal(s, tree[parent].var, declarationScope)
        ELSE IF parent # 0 /\ tree[parent].type = "Property"
            THEN s
        ELSE pushUnnamedDerivedSignal(s)

\* a handler that takes every unmatched read for one that crossed a closure
\* boundary (the test of line 1999 left out)
handleAsCrossing(s, identifier, declarationScope) ==
    IF \E k \in 1..Len(currentScope(s).trackedScopes) :
           matchTrackedScope(s, currentScope(s).trackedScopes[k], identifier)
        THEN s
        ELSE promoteCurrentFunction(s, declarationScope)

\* a handler that knows one message for an unmatched read of the frame (the
\* second search of lines 1996-1998 left out)
handleWithoutExpressionMatch(s, identifier, declarationScope) ==
    IF \E k \in 1..Len(currentScope(s).trackedScopes) :
           matchTrackedScope(s, currentScope(s).trackedScopes[k], identifier)
        THEN s
        ELSE IF declarationScope = currentScope(s).node
            THEN report(s, "untrackedReactive", identifier, "")
        ELSE promoteCurrentFunction(s, declarationScope)

\* handleTrackedScopes (lines 1991-2047)
handleTrackedScopes(s, identifier, declarationScope) ==
    LET entries == currentScope(s).trackedScopes
    IN  IF \E k \in 1..Len(entries) : matchTrackedScope(s, entries[k], identifier)
            THEN s
        ELSE IF declarationScope = currentScope(s).node
            THEN LET matchedExpression ==
                         \E k \in 1..Len(entries) :
                             matchTrackedScope(
                                 s, [entries[k] EXCEPT !.expect = "expression"],
                                 identifier)
                 IN  report(s,
                            IF matchedExpression THEN "expectedFunctionGotExpression"
                                                 ELSE "untrackedReactive",
                            identifier, "")
        ELSE promoteCurrentFunction(s, declarationScope)

-----------------------------------------------------------------------------
(* The validator: the bodies of the two loops of onFunctionExit.           *)

\* the list of lines 2087-2105 with the equality operators added
AnyComparison ==
    {"<", "<=", ">", ">=", "<<", ">>", ">>>", "+", "-", "*", "/", "%", "**", "|",
     "^", "&", "in", "==", "!=", "===", "!=="}

\* the operators of lines 2087-2105
ArithmeticOrComparison ==
    {"<", "<=", ">", ">=", "<<", ">>", ">>>", "+", "-", "*", "/", "%", "**", "|",
     "^", "&", "in"}

\* a condition that takes every entry that matches the identifier, an
\* expression entry around it too
MatchesAnyEntry(s, identifier) ==
    \E k \in 1..Len(currentScope(s).trackedScopes) :
        matchTrackedScope(s, currentScope(s).trackedScopes[k], identifier)

\* the condition of lines 2111-2113
MatchesFunctionEntry(s, identifier) ==
    \E k \in 1..Len(currentScope(s).trackedScopes) :
        LET trackedScope == currentScope(s).trackedScopes[k]
        IN  /\ trackedScope.node = identifier
            /\ trackedScope.expect \in {"function", "called-function"}

\* a chain that reports every read that is not invoked
reportEveryContext(s, identifier) ==
    report(s, "badSignal", identifier, "arithmetic or comparisons")

\* the condition of lines 2115-2121 on the parent of the container
IsElementOrDOMAttribute(elementOrAttribute) ==
    /\ elementOrAttribute # 0
    /\ \/ tree[elementOrAttribute].type = "JSXElement"
       \/ /\ tree[elementOrAttribute].type = "JSXAttribute"
          /\ tree[tree[elementOrAttribute].parent].type = "JSXElement"
          /\ isDOMElementName(tree[tree[elementOrAttribute].parent].name)

\* the calling-convention chain of lines 2085-2124.  ptype is
\* identifier.parent.type
checkCallingConvention(s, identifier) ==
    LET node == tree[identifier]
    IN  IF node.ptype = "TemplateLiteral"
            THEN report(s, "badSignal", identifier, "template literals")
        ELSE IF node.ptype = "BinaryExpression"
                /\ node.operator \in ArithmeticOrComparison
            THEN report(s, "badSignal", identifier, "arithmetic or comparisons")
        ELSE IF node.ptype = "UnaryExpression" /\ node.operator \in {"-", "+", "~"}
            THEN report(s, "badSignal", identifier, "unary expressions")
        ELSE IF node.ptype = "MemberExpression" /\ node.operator = "computed"
            THEN report(s, "badSignal", identifier, "property accesses")
        ELSE IF /\ node.ptype = "JSXExpressionContainer"
                /\ ~MatchesFunctionEntry(s, identifier)
                /\ IsElementOrDOMAttribute(tree[node.parent].parent)
            THEN report(s, "badSignal", identifier, "JSX")
        ELSE s

\* a read of a signal (lines 2073-2125)
checkSignalRead(s, reference, declarationScope) ==
    IF tree[reference].ptype \in {"CallExpression", "ArrayExpression in CallExpression"}
        THEN handleTrackedScopes(s, reference, declarationScope)
        ELSE checkCallingConvention(s, reference)

\* a loop body without the test of reference.isWrite() (lines 2065-2072 left out)
checkSignalReferenceAsRead(s, reference, declarationScope) ==
    checkSignalRead(s, reference, declarationScope)

\* one iteration of the loop over the signal references (lines 2063-2126)
checkSignalReference(s, reference, declarationScope) ==
    IF isWrite(reference)
        THEN report(s, "noWrite", reference, "")
        ELSE checkSignalRead(s, reference, declarationScope)

\* one iteration of the loop over the props references (lines 2127-2157).
\* operator "object" marks the object of a member access, "object=" the object
\* of a member access that is the left side of an assignment; name is the
\* name of the accessed property
checkPropsReference(s, reference, declarationScope) ==
    LET identifier == reference
        node == tree[identifier]
    IN  IF isWrite(reference)
            THEN report(s, "noWrite", identifier, "")
        ELSE IF node.ptype = "MemberExpression"
                /\ node.operator \in {"object", "object="}
            THEN IF node.operator = "object="
                     THEN report(s, "noWrite", identifier, "")
                 ELSE IF IsInitialDefaultStatic(node.name)
                     THEN s
                 ELSE handleTrackedScopes(s, identifier, declarationScope)
        ELSE IF node.ptype \in {"AssignmentExpression", "VariableDeclarator"}
            THEN report(s, "untrackedReactive", identifier, "")
        ELSE s

\* the bindings of a list ("signals" or "props")
Variables(s, list) == IF list = "signals" THEN s.signals ELSE s.props

\* the history entry of a yield (line 1877): what is yielded, the frame that
\* exits, its tracked scopes and those of the frame below it
Yield(s, list, variable, reference) ==
    [id |-> variable.id, list |-> list, reference |-> reference,
     declarationScope |-> variable.declarationScope,
     frame |-> currentScope(s).node,
     entries |-> currentScope(s).trackedScopes,
     parentEntries |-> IF Len(s.stack) >= 2 THEN parentScope(s).trackedScopes
                                            ELSE <<>>,
     at |-> s.at,
     reports |-> <<>>]

recordYield(s, list, variable, reference) ==
    [s EXCEPT !.yielded = Append(@, Yield(s, list, variable, reference))]

\* the history entry k keeps the reports made after the first n
recordReports(s, k, n) ==
    [s EXCEPT !.yielded[k].reports = SubSeq(s.diags, n + 1, Len(s.diags))]

\* the body of the loop of lines 2063-2126 or of the loop of lines 2127-2157
checkReference(s, list, reference, declarationScope) ==
    IF list = "signals" THEN checkSignalReference(s, reference, declarationScope)
                        ELSE checkPropsReference(s, reference, declarationScope)

\* one iteration of a loop over a drain: the yield and the loop body
consumeYield(s, list, variable, reference) ==
    recordReports(
        checkReference(recordYield(s, list, variable, reference), list, reference,
                       variable.declarationScope),
        Len(s.yielded) + 1, Len(s.diags))

\* the yields of one binding (line 1877) and the loop body run on each, in
\* order; a throw of the body ends the loop
RECURSIVE yieldReferences(_, _, _, _, _)
yieldReferences(s, list, variable, inScope, k) ==
    IF k > Len(inScope) \/ s.fault # "none" THEN s
    ELSE yieldReferences(consumeYield(s, list, variable, inScope[k]),
                         list, variable, inScope, k + 1)

\* a drain that forgets to shrink the list (line 1881 left out)
keepReferences(s, list, i, refs) == s

\* variable.references = notInScope (line 1881), not reached after a throw
setReferences(s, list, i, refs) ==
    IF s.fault # "none" THEN s
    ELSE IF list = "signals" THEN [s EXCEPT !.signals[i].references = refs]
    ELSE [s EXCEPT !.props[i].references = refs]

\* consumeReferencesInScope (lines 1866-1883), from the i-th binding of the
\* list on; a binding pushed while the loop runs is visited by it
RECURSIVE consumeReferencesInScope(_, _, _)
consumeReferencesInScope(s, list, i) ==
    IF i > Len(Variables(s, list)) \/ s.fault # "none" THEN s
    ELSE LET variable == Variables(s, list)[i]
             inScope == SelectSeq(variable.references,
                                  LAMBDA r : isReferenceInCurrentScope(s, r))
             notInScope == SelectSeq(variable.references,
                                     LAMBDA r : ~isReferenceInCurrentScope(s, r))
         IN  consumeReferencesInScope(
                 setReferences(yieldReferences(s, list, variable, inScope, 1),
                               list, i, notInScope),
                 list, i + 1)

HasReferences(variable) == Len(variable.references) # 0

\* the filter of line 1859 or 1864, not reached after a throw
filterVariables(s, list) ==
    IF s.fault # "none" THEN s
    ELSE IF list = "signals" THEN [s EXCEPT !.signals = SelectSeq(@, HasReferences)]
    ELSE [s EXCEPT !.props = SelectSeq(@, HasReferences)]

\* consumeSignalReferencesInScope with the loop of lines 2063-2126
consumeSignalReferencesInScope(s) ==
    filterVariables(consumeReferencesInScope(s, "signals", 1), "signals")

\* consumePropsReferencesInScope with the loop of lines 2127-2157, not reached
\* after a throw
consumePropsReferencesInScope(s) ==
    IF s.fault # "none" THEN s
    ELSE filterVariables(consumeReferencesInScope(s, "props", 1), "props")

\* the check of the frame's unnamed derived signals (lines 2158-2170)
RECURSIVE checkUnnamedDerivedSignals(_, _)
checkUnnamedDerivedSignals(s, k) ==
    LET set == currentScope(s).unnamedDerivedSignals
        entries == currentScope(s).trackedScopes
    IN  IF k > Len(set) THEN s
        ELSE checkUnnamedDerivedSignals(
                 IF \E e \in 1..Len(entries) : matchTrackedScope(s, entries[e], set[k])
                     THEN s
                     ELSE report(s, "badUnnamedDerivedSignal", set[k], ""),
                 k + 1)

\* scopeStack.pop()
pop(s) ==
    [s EXCEPT !.stack = SubSeq(@, 1, Len(@) - 1),
              !.popped = Append(@, [frame |-> currentScope(s), at |-> s.at])]

\* the end of onFunctionExit (lines 2158-2171), not reached after a throw
checkAndPop(s) ==
    IF s.fault # "none" THEN s ELSE pop(checkUnnamedDerivedSignals(s, 1))

\* an exit that drains and pops for every function, synchronous callback or
\* not (the early return of lines 2060-2062 left out)
exitEveryFunction(s, currentScopeNode) ==
    checkAndPop(consumePropsReferencesInScope(consumeSignalReferencesInScope(s)))

\* an exit that drains at every function, synchronous callback or not, and
\* pops only where a frame was pushed
drainEveryFunction(s, currentScopeNode) ==
    IF isFunctionNode(currentScopeNode) /\ currentScopeNode \in s.sync
        THEN consumePropsReferencesInScope(consumeSignalReferencesInScope(s))
        ELSE checkAndPop(consumePropsReferencesInScope(consumeSignalReferencesInScope(s)))

\* onFunctionExit (lines 2048-2172).  The functions of the trees take no
\* parameters, so markPropsOnCondition (node.params.length === 1) adds nothing
onFunctionExit(s, currentScopeNode) ==
    IF isFunctionNode(currentScopeNode) /\ currentScopeNode \in s.sync THEN s
    ELSE checkAndPop(consumePropsReferencesInScope(consumeSignalReferencesInScope(s)))

\* an enter that pushes a frame for every function, synchronous callback or
\* not (the early return of lines 1972-1974 left out)
enterEveryFunction(s, node) == [s EXCEPT !.stack = Append(@, ScopeStackItem(node))]

\* onFunctionEnter (lines 1971-1979)
onFunctionEnter(s, node) ==
    IF isFunctionNode(node) /\ node \in s.sync THEN s
    ELSE [s EXCEPT !.stack = Append(@, ScopeStackItem(node))]

-----------------------------------------------------------------------------
(* The classifier: checkForTrackedScopes, checkForSyncCallbacks and        *)
(* checkForReactiveAssignment (lines 2173-2462).  The callees of the trees *)
(* are createSignal, createStore, createEffect, an unknown function `log`  *)
(* and the array method `.map`; the branches for `on`, runWithOwner and a  *)
(* createStore of an object literal need callees and nodes the trees do    *)
(* not have.                                                               *)

\* a registration that reports every asynchronous function, whatever the
\* entry expects (the test of expect in line 2292 left out)
pushTrackedScopeStrict(s, node, expect) ==
    LET s1 == [s EXCEPT !.stack[Len(s.stack)].trackedScopes =
                            Append(@, [node |-> node, expect |-> expect])]
    IN  IF isFunctionNode(node) /\ tree[node].async
            THEN report(s1, "noAsyncTrackedScope", node, "")
            ELSE s1

\* pushTrackedScope (lines 2287-2295)
pushTrackedScope(s, node, expect) ==
    LET s1 == [s EXCEPT !.stack[Len(s.stack)].trackedScopes =
                            Append(@, [node |-> node, expect |-> expect])]
    IN  IF expect # "called-function" /\ isFunctionNode(node) /\ tree[node].async
            THEN report(s1, "noAsyncTrackedScope", node, "")
            ELSE s1

\* trace (lines 39-57) for the declarations of the trees, which are `const`
RECURSIVE trace(_)
trace(node) ==
    IF tree[node].type # "Identifier" THEN node
    ELSE LET def == DefinitionOf(tree[node].var)
         IN  IF def = 0 THEN node
             ELSE IF tree[def].type = "FunctionDeclaration" THEN def
             ELSE IF tree[def].idType = "Identifier" /\ NthChild(def, 1) # 0
                 THEN trace(NthChild(def, 1))
             ELSE node

\* an identifier child of a call node is an argument of the call; an
\* identifier with ptype CallExpression elsewhere is the callee of its call
IsCallee(node) ==
    /\ tree[node].ptype = "CallExpression"
    /\ \/ tree[tree[node].parent].type # "CallExpression"
       \/ tree[node].operator = "callee"

\* the test of line 2301
IsTrackable(traced) ==
    \/ isFunctionNode(traced)
    \/ /\ tree[traced].type = "Identifier"
       /\ tree[traced].ptype # "MemberExpression"
       /\ ~IsCallee(traced)

\* permissivelyTrackNode (lines 2296-2307): a pre-order traversal that skips
\* the children of a node it marks
RECURSIVE permissivelyTrackNode(_, _), permissivelyTrackChildren(_, _, _)
\* a traversal that marks and goes on below the marked node (this.skip() of
\* line 2303 left out)
permissivelyTrackEveryNode(s, node) ==
    permissivelyTrackChildren(
        IF IsTrackable(trace(node)) THEN pushTrackedScope(s, node, "called-function")
                                    ELSE s,
        node, node + 1)

permissivelyTrackNode(s, node) ==
    IF IsTrackable(trace(node)) THEN pushTrackedScope(s, node, "called-function")
    ELSE permissivelyTrackChildren(s, node, node + 1)

permissivelyTrackChildren(s, p, i) ==
    IF i > Len(tree) THEN s
    ELSE permissivelyTrackChildren(
             IF tree[i].parent = p THEN permissivelyTrackNode(s, i) ELSE s, p, i + 1)

\* for (const arg of node.arguments) permissivelyTrackNode(arg) (lines 2413-2415)
RECURSIVE permissivelyTrackArguments(_, _, _)
permissivelyTrackArguments(s, call, i) ==
    IF i > Len(tree) THEN s
    ELSE permissivelyTrackArguments(
             IF i \in ArgumentsOf(call) THEN permissivelyTrackNode(s, i) ELSE s,
             call, i + 1)

TrackedFunctionPrimitives ==
    {"createMemo", "children", "createEffect", "createRenderEffect", "createDeferred",
     "createComputed", "createSelector", "untrack", "mapArray", "indexArray",
     "observable"}

CalledFunctionPrimitives == {"onMount", "onCleanup", "onError"}

Timers == {"setInterval", "setTimeout", "setImmediate", "requestAnimationFrame",
           "requestIdleCallback"}

\* /^(?:use|create)[A-Z]/ on the callee names of the trees
ReactiveHookNames == {"createSignal", "createStore", "createEffect", "createMemo",
                      "createSelector", "useTransition", "useData"}

\* options.customReactiveFunctions (default, lines 1945-1949)
customReactiveFunctions == {}

\* checkForTrackedScopes on a CallExpression (lines 2337-2426)
checkForTrackedScopes(s, node) ==
    LET callee == tree[node].callee
        arg0 == NthArgument(node, 1)
        arg1 == NthArgument(node, 2)
    IN  IF ~tree[node].member
            THEN IF \/ matchImport(TrackedFunctionPrimitives, callee)
                    \/ matchImport({"createResource"}, callee) /\ arg1 # 0
                     THEN pushTrackedScope(s, arg0, "function")
                 ELSE IF \/ matchImport(CalledFunctionPrimitives, callee)
                         \/ callee \in Timers
                     THEN pushTrackedScope(s, arg0, "called-function")
                 ELSE IF callee \in ReactiveHookNames \cup customReactiveFunctions
                     THEN permissivelyTrackArguments(s, node, node + 1)
                 ELSE s
        ELSE IF callee = "addEventListener" /\ arg1 # 0
            THEN pushTrackedScope(s, arg1, "called-function")
        ELSE IF callee \in ReactiveHookNames \cup customReactiveFunctions
            THEN permissivelyTrackArguments(s, node, node + 1)
        ELSE s

\* checkForTrackedScopes on a JSXExpressionContainer or a JSXSpreadAttribute
\* (lines 2308-2321).  A JSXElement node stands for its opening element too;
\* the name of an attribute is its source text
checkForTrackedScopesJSX(s, node) ==
    LET expression == NthChild(node, 1)
        parent == tree[node].parent
        attribute == tree[parent].type = "JSXAttribute"
        name == tree[parent].name
        element == tree[parent].parent
        onElement == attribute /\ element # 0 /\ tree[element].type = "JSXElement"
    IN  IF tree[node].type = "JSXSpreadAttribute"
            THEN pushTrackedScope(s, expression, "expression")
        ELSE IF /\ onElement
                /\ IsEventHandlerName(name)
                /\ isDOMElementName(tree[element].name)
            THEN pushTrackedScope(s, expression, "called-function")
        ELSE IF /\ attribute
                /\ StartsWith(name, <<"u", "s", "e", ":">>)
                /\ isFunctionNode(expression)
            THEN pushTrackedScope(s, expression, "called-function")
        ELSE IF /\ onElement
                /\ name = <<"v", "a", "l", "u", "e">>
                /\ EndsWith(tree[element].name,
                            <<"P", "r", "o", "v", "i", "d", "e", "r">>)
            THEN s
        ELSE IF /\ onElement
                /\ StartsWithThenUpperCase(name, <<"s", "t", "a", "t", "i", "c">>)
                /\ ~isDOMElementName(tree[element].name)
            THEN s
        ELSE IF attribute /\ name = <<"r", "e", "f">> /\ isFunctionNode(expression)
            THEN pushTrackedScope(s, expression, "called-function")
        ELSE IF tree[parent].type = "JSXElement" /\ isFunctionNode(expression)
            THEN pushTrackedScope(s, expression, "function")
        ELSE pushTrackedScope(s, expression, "expression")

\* the JSXElement handler (lines 2525-2529)
markJSX(s) ==
    IF Len(s.stack) > 0 THEN [s EXCEPT !.stack[Len(s.stack)].hasJSX = TRUE] ELSE s

ArrayMethods == {"forEach", "map", "flatMap", "reduce", "reduceRight", "find",
                 "findIndex", "filter", "every", "some"}

\* checkForSyncCallbacks (lines 2173-2208).  The patterns of the trees bind one
\* element, so a createSignal call has no setter (getNthDestructuredVar(id, 1))
checkForSyncCallbacks(s, node) ==
    LET callee == tree[node].callee
        arg0 == NthArgument(node, 1)
    IN  IF /\ Cardinality(ArgumentsOf(node)) = 1
           /\ isFunctionNode(arg0)
           /\ ~tree[arg0].async
           /\ \/ ~tree[node].member /\ matchImport({"batch", "produce"}, callee)
              \/ tree[node].member /\ callee \in ArrayMethods
            THEN [s EXCEPT !.sync = @ \cup {arg0}]
            ELSE s

\* checkForReactiveAssignment (lines 2209-2285): idType is the type of the
\* pattern ("" when id is null), variable the identifier it binds, callee the
\* name of the called identifier ("" when init is no such call), at the node
\* that an advisory is reported on
checkForReactiveAssignment(s, idType, variable, callee, at) ==
    IF callee = "" THEN s
    ELSE IF matchImport({"createSignal", "useTransition"}, callee)
        THEN IF idType = "ArrayPattern"
                 THEN pushSignal(s, variable, currentScope(s).node)
                 ELSE report(s, "shouldDestructure", at, "first")
    ELSE IF matchImport({"createMemo", "createSelector"}, callee)
        THEN IF idType = "Identifier"
                 THEN pushSignal(s, variable, currentScope(s).node)
                 ELSE report(s, "shouldAssign", at, "")
    ELSE IF matchImport({"createStore"}, callee)
        THEN IF idType = "ArrayPattern"
                 THEN pushProps(s, variable, currentScope(s).node)
                 ELSE report(s, "shouldDestructure", at, "first")
    ELSE IF matchImport({"mergeProps"}, callee)
        THEN IF idType = "Identifier"
                 THEN pushProps(s, variable, currentScope(s).node)
                 ELSE report(s, "shouldAssign", at, "")
    ELSE s

\* the callee of an initializer when it is a call of an identifier, else ""
CalleeOfInit(initNode) ==
    IF initNode # 0 /\ tree[initNode].type = "CallExpression" /\ ~tree[initNode].member
        THEN tree[initNode].callee
        ELSE ""

-----------------------------------------------------------------------------
(* The trees the provider hands over.  A tree is grown statement by        *)
(* statement in source order: a statement is added to the body of the      *)
(* Program or of a function that is still open (on the path from the last  *)
(* node to the root).  Within a body the uses come last.  Two variables    *)
(* occur: one that factory calls are bound to, one that a function is      *)
(* bound to; neither is shadowed.                                          *)

FactoryVar == "count"

FunctionVar == "isPositive"

StatementsOf == {i \in 3..Len(tree) : isProgramOrFunctionNode(tree[i].parent)}

FunctionsOf == {i \in 1..Len(tree) : isFunctionNode(i)}

IsUse(i) == tree[i].type = "Identifier" /\ tree[i].ptype # "ArrayPattern"

IsInvokedRead(i) == tree[i].ptype = "CallExpression" /\ ~tree[i].write

UsesOf == {i \in 1..Len(tree) : IsUse(i)}

FactoryBinders ==
    {i \in 1..Len(tree) :
        /\ tree[i].var = FactoryVar
        /\ tree[i].type \in {"VariableDeclarator", "AssignmentExpression"}}

\* the function or Program a variable is declared in; a variable that is only
\* assigned is declared by a `let` of the Program
ScopeOfVariable(v) ==
    IF DefinitionOf(v) = 0 THEN 1 ELSE find(tree[DefinitionOf(v)].parent)

CanUse(v, p) == ScopeOfVariable(v) \in PathToRoot(p)

CanDeclare(v, p) ==
    /\ DefinitionOf(v) # 0 => ScopeOfVariable(v) = p
    /\ \A i \in 1..Len(tree) :
           (tree[i].type = "Identifier" /\ tree[i].var = v) => p \in PathToRoot(i)

HasExpressionBody(p) ==
    \E c \in ChildrenOf(p) : tree[c].ptype = "ArrowFunctionExpression"

HasUse(p) == \E c \in ChildrenOf(p) : tree[c].type = "Identifier"

OpenBodies ==
    {p \in PathToRoot(Len(tree)) : isProgramOrFunctionNode(p) /\ ~HasExpressionBody(p)}

\* `const [count] = createSignal()`, `const [count] = createStore()`,
\* `[count] = createSignal()`
BinderStatements(p) ==
    IF Cardinality(FactoryBinders) >= MaxFactoryDecls \/ HasUse(p) THEN {}
    ELSE (IF CanDeclare(FactoryVar, p)
             THEN {<<DeclaratorNode(p, FactoryVar, "ArrayPattern"),
                     CallNode(Len(tree) + 1, f, FALSE)>> :
                       f \in {"createSignal", "createStore"}}
             ELSE {})
         \cup (IF CanUse(FactoryVar, p)
                  THEN {<<AssignmentNode(p, FactoryVar, "createSignal"),
                          IdentifierNode(Len(tree) + 1, FactoryVar, "ArrayPattern",
                                         "", TRUE)>>}
                  ELSE {})

\* `const isPositive = () => {}`, `function isPositive() {}`,
\* `createEffect(() => {})`, `log(() => {})`, `list.map(() => {})`
FunctionStatements(p) ==
    IF Cardinality(FunctionsOf) >= MaxFunctions \/ HasUse(p) THEN {}
    ELSE (IF DefinitionOf(FunctionVar) = 0 /\ CanDeclare(FunctionVar, p)
             THEN {<<DeclaratorNode(p, FunctionVar, "Identifier"),
                     ArrowNode(Len(tree) + 1, FALSE)>>,
                   <<FunctionDeclarationNode(p, FunctionVar)>>}
             ELSE {})
         \cup {<<CallNode(p, c[1], c[2]), ArrowNode(Len(tree) + 1, FALSE)>> :
                  c \in {<<"createEffect", FALSE>>, <<"log", FALSE>>, <<"map", TRUE>>}}

\* `count()`, `count + 1`, `count === 1`, `count = 1`, `count.x`, `() => count`,
\* `isPositive()`
UseStatements(p) ==
    IF Cardinality(UsesOf) >= MaxUses THEN {}
    ELSE (IF CanUse(FactoryVar, p)
             THEN {<<IdentifierNode(p, FactoryVar, "CallExpression", "", FALSE)>>}
                  \cup (IF Cardinality({i \in UsesOf : ~IsInvokedRead(i)}) < MaxOtherUses
                           THEN {<<IdentifierNode(p, FactoryVar, "BinaryExpression",
                                                  "+", FALSE)>>,
                                 <<IdentifierNode(p, FactoryVar, "BinaryExpression",
                                                  "===", FALSE)>>,
                                 <<IdentifierNode(p, FactoryVar, "AssignmentExpression",
                                                  "=", TRUE)>>,
                                 <<MemberObjectNode(p, FactoryVar, "object",
                                                    <<"x">>)>>}
                                \cup (IF tree[p].type = "ArrowFunctionExpression"
                                         /\ ChildrenOf(p) = {}
                                         THEN {<<IdentifierNode(
                                                    p, FactoryVar,
                                                    "ArrowFunctionExpression", "",
                                                    FALSE)>>}
                                         ELSE {})
                           ELSE {})
             ELSE {})
         \cup (IF DefinitionOf(FunctionVar) # 0 /\ CanUse(FunctionVar, p)
                  THEN {<<IdentifierNode(p, FunctionVar, "CallExpression", "", FALSE)>>}
                  ELSE {})

NextStatements ==
    IF Cardinality(StatementsOf) >= MaxStatements THEN {}
    ELSE UNION {BinderStatements(p) \cup FunctionStatements(p) \cup UseStatements(p) :
                   p \in OpenBodies}

-----------------------------------------------------------------------------
(* A second family of trees: the results of factory calls captured in      *)
(* every shape, and callbacks, asynchronous or not, handed to a primitive, *)
(* a timer or an unknown function.  Here the right side of an assignment   *)
(* is a node of the tree (the last child of the assignment).               *)

Factories == {"createSignal", "useTransition", "createMemo", "createSelector",
              "createStore", "mergeProps"}

\* `obj.count = callee()`
MemberAssignmentNode(p, callee) ==
    [AssignmentNode(p, "", callee) EXCEPT !.idType = "MemberExpression"]

\* `count = callee()`
IdentifierAssignmentNode(p, v, callee) ==
    [AssignmentNode(p, v, callee) EXCEPT !.idType = "Identifier"]

\* `const [count] = f()`, `const count = f()`, `f()`, `obj.count = f()`,
\* `[count] = f()`, `count = f()`
CaptureStatements(p) ==
    UNION {
        (IF CanDeclare(FactoryVar, p)
            THEN {<<DeclaratorNode(p, FactoryVar, idType),
                    CallNode(Len(tree) + 1, f, FALSE)>> :
                      idType \in {"ArrayPattern", "Identifier"}}
            ELSE {})
        \cup {<<CallNode(p, f, FALSE)>>,
              <<MemberAssignmentNode(p, f), CallNode(Len(tree) + 1, f, FALSE)>>}
        \cup (IF CanUse(FactoryVar, p)
                 THEN {<<AssignmentNode(p, FactoryVar, f),
                         IdentifierNode(Len(tree) + 1, FactoryVar, "ArrayPattern",
                                        "", TRUE),
                         CallNode(Len(tree) + 1, f, FALSE)>>,
                       <<IdentifierAssignmentNode(p, FactoryVar, f),
                         IdentifierNode(Len(tree) + 1, FactoryVar,
                                        "AssignmentExpression", "=", TRUE),
                         CallNode(Len(tree) + 1, f, FALSE)>>}
                 ELSE {})
        : f \in Factories}

\* `createEffect(() => {})`, `onMount(async () => {})`, `setTimeout(() => {})`,
\* `log(async () => {})`, ...
CallbackStatements(p) ==
    {<<CallNode(p, c, FALSE), ArrowNode(Len(tree) + 1, async)>> :
        c \in {"createEffect", "onMount", "setTimeout", "log"}, async \in BOOLEAN}

NextCaptureStatements ==
    IF Cardinality(StatementsOf) >= MaxCaptureStatements THEN {}
    ELSE UNION {CaptureStatements(p) \cup CallbackStatements(p) : p \in OpenBodies}

-----------------------------------------------------------------------------
(* A third family of trees: one factory binding of the Program, functions  *)
(* of every promotion shape, and one read of the binding in every context  *)
(* the two loops of onFunctionExit distinguish, placed as a statement, in  *)
(* markup, or as the argument of a primitive.  Here the parent expression  *)
(* of the read is a node of the tree, and so is the call of an invoked     *)
(* read.                                                                   *)

div == <<"d", "i", "v">>

Comp == <<"C", "o", "m", "p">>

onClick == <<"o", "n", "C", "l", "i", "c", "k">>

title == <<"t", "i", "t", "l", "e">>

\* the names of the accessed properties: x, initial, initialValue
PropertyNames == {<<"x">>,
                  <<"i", "n", "i", "t", "i", "a", "l">>,
                  <<"i", "n", "i", "t", "i", "a", "l", "V", "a", "l", "u", "e">>}

\* `const [count] = createSignal()`, `const [count] = createStore()`
ContextBinders ==
    {<<DeclaratorNode(1, FactoryVar, "ArrayPattern"), CallNode(Len(tree) + 1, f, FALSE)>> :
        f \in {"createSignal", "createStore"}}

\* `createEffect(() => {})`, `log(() => {})`, `({ key: () => {} })`,
\* `const isPositive = () => {}`
ContextFunctions(p) ==
    {<<CallNode(p, c, FALSE), ArrowNode(Len(tree) + 1, FALSE)>> :
        c \in {"createEffect", "log"}}
    \cup {<<ExpressionNode(p, "ObjectExpression"), PropertyNode(Len(tree) + 1),
            ArrowNode(Len(tree) + 2, FALSE)>>}
    \cup (IF DefinitionOf(FunctionVar) = 0
             THEN {<<DeclaratorNode(p, FunctionVar, "Identifier"),
                     ArrowNode(Len(tree) + 1, FALSE)>>}
             ELSE {})

\* a read of the binding as the expression that is the child of q, a node of
\* type qtype; at is the index of the first node of the read.  `count()`,
\* `count.x`, `count.initial`, `count.initialValue`, `${count}`, `count + 1`,
\* `-count`, `obj[count]`, `y = count`, `count`
ExpressionReads(q, qtype, at) ==
    {<<CallNode(q, FactoryVar, FALSE), CalleeNode(at, FactoryVar)>>,
     <<[ExpressionNode(q, "AssignmentExpression") EXCEPT !.idType = "Identifier",
                                                         !.var = "y"],
       IdentifierNode(at, FactoryVar, "AssignmentExpression", "", FALSE)>>,
     <<ExpressionNode(q, "TemplateLiteral"),
       IdentifierNode(at, FactoryVar, "TemplateLiteral", "", FALSE)>>,
     <<ExpressionNode(q, "BinaryExpression"),
       IdentifierNode(at, FactoryVar, "BinaryExpression", "+", FALSE)>>,
     <<ExpressionNode(q, "UnaryExpression"),
       IdentifierNode(at, FactoryVar, "UnaryExpression", "-", FALSE)>>,
     <<ExpressionNode(q, "MemberExpression"),
       IdentifierNode(at, FactoryVar, "MemberExpression", "computed", FALSE)>>,
     <<IdentifierNode(q, FactoryVar, qtype, "", FALSE)>>}
    \cup {<<ExpressionNode(q, "MemberExpression"),
            MemberObjectNode(at, FactoryVar, "object", name)>> : name \in PropertyNames}

\* the read as a statement, `<div>{read}</div>`, `<div onClick={read} />`,
\* `<div title={read} />`, `<Comp title={read} />`, `<div {...read} />`,
\* `createEffect(read)`, `onMount(read)`
PlacedReads(p) ==
    LET n == Len(tree)
    IN  ExpressionReads(p, "ExpressionStatement", n + 1)
        \cup {<<JSXElementNode(p, div), JSXExpressionContainerNode(n + 1)>> \o read :
                 read \in ExpressionReads(n + 2, "JSXExpressionContainer", n + 3)}
        \cup UNION {
                {<<JSXElementNode(p, a[1]), JSXAttributeNode(n + 1, a[2]),
                   JSXExpressionContainerNode(n + 2)>> \o read :
                    read \in ExpressionReads(n + 3, "JSXExpressionContainer", n + 4)}
                : a \in {<<div, onClick>>, <<div, title>>, <<Comp, title>>}}
        \cup {<<JSXElementNode(p, div), JSXSpreadAttributeNode(n + 1)>> \o read :
                 read \in ExpressionReads(n + 2, "JSXSpreadAttribute", n + 3)}
        \cup UNION {
                {<<CallNode(p, c, FALSE)>> \o read :
                    read \in ExpressionReads(n + 1, "CallExpression", n + 2)}
                : c \in {"createEffect", "onMount"}}

\* `count.x = 1`, `const y = count`, `count = 1`
OtherUses(p) ==
    {<<MemberObjectNode(p, FactoryVar, "object=", <<"x">>)>>,
     <<DeclaratorNode(p, "y", "Identifier"),
       IdentifierNode(Len(tree) + 1, FactoryVar, "VariableDeclarator", "", FALSE)>>,
     <<IdentifierNode(p, FactoryVar, "AssignmentExpression", "=", TRUE)>>}

\* the binding comes first, the one use of it last
NextContextStatements ==
    IF StatementsOf = {} THEN ContextBinders
    ELSE IF UsesOf # {} \/ Cardinality(StatementsOf) >= MaxContextStatements THEN {}
    ELSE UNION {ContextFunctions(p) \cup PlacedReads(p) \cup OtherUses(p) :
                   p \in OpenBodies}

-----------------------------------------------------------------------------
(* A fourth family of trees: one call of a function named like a reactive  *)
(* hook, `useData(...)` or `api.useData(...)`, after an optional           *)
(* `const isPositive = () => {}`.  Its arguments are functions,            *)
(* identifiers, member accesses, calls and array literals.                 *)

\* an argument that is the child of q; at is the index of its first node.
\* `() => {}`, `() => () => {}`, `x`, `isPositive`, `a.b`, `a[b]`, `f(x)`,
\* `isPositive()`, `[() => {}, x]`
HookArguments(q, at) ==
    {<<ArrowNode(q, FALSE)>>,
     <<ArrowNode(q, FALSE), ArrowNode(at, FALSE)>>,
     <<IdentifierNode(q, "x", "CallExpression", "", FALSE)>>,
     <<IdentifierNode(q, FunctionVar, "CallExpression", "", FALSE)>>,
     <<ExpressionNode(q, "MemberExpression"),
       IdentifierNode(at, "a", "MemberExpression", "object", FALSE),
       IdentifierNode(at, "b", "MemberExpression", "property", FALSE)>>,
     <<ExpressionNode(q, "MemberExpression"),
       IdentifierNode(at, "a", "MemberExpression", "object", FALSE),
       IdentifierNode(at, "b", "MemberExpression", "computed", FALSE)>>,
     <<CallNode(q, "f", FALSE), CalleeNode(at, "f"),
       IdentifierNode(at, "x", "CallExpression", "", FALSE)>>,
     <<CallNode(q, FunctionVar, FALSE), CalleeNode(at, FunctionVar)>>,
     <<ExpressionNode(q, "ArrayExpression"), ArrowNode(at, FALSE),
       IdentifierNode(at, "x", "ArrayExpression", "", FALSE)>>}

\* the hook calls and the argument lists that start with the given arguments
RECURSIVE HookCalls(_, _)
HookCalls(call, count) ==
    {call}
    \cup (IF count >= MaxHookArguments THEN {}
          ELSE UNION {HookCalls(call \o argument, count + 1) :
                         argument \in HookArguments(Len(tree) + 1,
                                                    Len(tree) + Len(call) + 1)})

NextHookStatements ==
    IF \E i \in 1..Len(tree) : tree[i].callee = "useData" THEN {}
    ELSE (IF StatementsOf = {}
             THEN {<<DeclaratorNode(1, FunctionVar, "Identifier"),
                     ArrowNode(Len(tree) + 1, FALSE)>>}
             ELSE {})
         \cup UNION {HookCalls(<<CallNode(1, "useData", member)>>, 0) :
                        member \in BOOLEAN}

-----------------------------------------------------------------------------
(* Actions.                                                                *)

Init ==
    /\ tree = <<ProgramNode, ImportNode>>
    /\ nodeQueue = <<>>
    /\ pos = 0
    /\ importMap = <<>>
    /\ scopeStack = <<>>
    /\ syncCallbacks = {}
    /\ signals = <<>>
    /\ props = <<>>
    /\ diagnostics = <<>>
    /\ fault = "none"
    /\ registered = <<>>
    /\ yielded = <<>>
    /\ popped = <<>>
    /\ merged = <<>>
    /\ runs = <<>>

\* the provider parses one more statement of the source
Parse ==
    /\ pos = 0
    /\ \E statement \in NextStatements : tree' = tree \o statement
    /\ UNCHANGED <<nodeQueue, pos, importMap, scopeStack, syncCallbacks, signals,
                   props, diagnostics, fault, registered, yielded, popped, merged,
                   runs>>

\* a rule that keeps its scope stack and its import table from one run to the
\* next (one ScopeStack for the module instead of one per create)
sharedRuleInstance ==
    UNCHANGED <<importMap, scopeStack, syncCallbacks, signals, props>>

\* the provider parses one more statement of a source of the second family
ParseCaptures ==
    /\ pos = 0
    /\ \E statement \in NextCaptureStatements : tree' = tree \o statement
    /\ UNCHANGED <<nodeQueue, pos, importMap, scopeStack, syncCallbacks, signals,
                   props, diagnostics, fault, registered, yielded, popped, merged,
                   runs>>

\* the provider parses one more statement of a source of the third family
ParseContexts ==
    /\ pos = 0
    /\ \E statement \in NextContextStatements : tree' = tree \o statement
    /\ UNCHANGED <<nodeQueue, pos, importMap, scopeStack, syncCallbacks, signals,
                   props, diagnostics, fault, registered, yielded, popped, merged,
                   runs>>

\* the provider parses one more statement of a source of the fourth family
ParseHooks ==
    /\ pos = 0
    /\ \E statement \in NextHookStatements : tree' = tree \o statement
    /\ UNCHANGED <<nodeQueue, pos, importMap, scopeStack, syncCallbacks, signals,
                   props, diagnostics, fault, registered, yielded, popped, merged,
                   runs>>

\* the state of a new rule instance: new ScopeStack() and trackImports() (lines
\* 1958-1960, 87)
newRuleInstance ==
    /\ importMap' = <<>>
    /\ scopeStack' = <<>>
    /\ syncCallbacks' = {}
    /\ signals' = <<>>
    /\ props' = <<>>

\* create(context, [options]) (lines 1950-1960): a fresh rule instance for the
\* tree; the walk starts
create ==
    /\ pos = 0
    /\ nodeQueue' = Walk
    /\ pos' = 1
    /\ newRuleInstance
    /\ UNCHANGED <<tree, diagnostics, fault, registered, yielded, popped, merged,
                   runs>>

\* the run is over: the walk has come to its end or a handler has thrown
RunOver == pos >= 1 /\ (pos > Len(nodeQueue) \/ fault # "none")

\* the linter lints the same tree once more: create(context) is called again
\* (lines 1950-1960) with a new context, and the walk starts over
createAgain ==
    /\ RunOver
    /\ Len(runs) + 1 < MaxRuns
    /\ runs' = Append(runs, [diagnostics |-> diagnostics, fault |-> fault])
    /\ newRuleInstance
    /\ pos' = 1
    /\ diagnostics' = <<>>
    /\ fault' = "none"
    /\ registered' = <<>>
    /\ yielded' = <<>>
    /\ popped' = <<>>
    /\ merged' = <<>>
    /\ UNCHANGED <<tree, nodeQueue>>

\* the next handler call of the walk is the enter (or exit) handler of a node
\* of one of the types
AtHandler(types, exit) ==
    /\ pos >= 1
    /\ pos <= Len(nodeQueue)
    /\ fault = "none"
    /\ nodeQueue[pos].exit = exit
    /\ tree[nodeQueue[pos].node].type \in types

\* the handler leaves the rule state s behind and the walk goes on
Return(s) ==
    /\ scopeStack' = s.stack
    /\ syncCallbacks' = s.sync
    /\ signals' = s.signals
    /\ props' = s.props
    /\ diagnostics' = s.diags
    /\ fault' = s.fault
    /\ registered' = s.registered
    /\ yielded' = s.yielded
    /\ popped' = s.popped
    /\ merged' = s.merged
    /\ pos' = pos + 1
    /\ UNCHANGED <<tree, nodeQueue, runs>>

\* handleImportDeclaration (lines 88-96)
ImportDeclaration ==
    /\ AtHandler({"ImportDeclaration"}, FALSE)
    /\ importMap' = [n \in DOMAIN importMap \cup SolidImports |->
                        IF n \in SolidImports THEN n ELSE importMap[n]]
    /\ pos' = pos + 1
    /\ UNCHANGED <<tree, nodeQueue, scopeStack, syncCallbacks, signals, props,
                   diagnostics, fault, registered, yielded, popped, merged, runs>>

\* FunctionExpression, ArrowFunctionExpression, FunctionDeclaration, Program
FunctionEnter ==
    /\ AtHandler(PROGRAM_OR_FUNCTION_TYPES, FALSE)
    /\ Return(onFunctionEnter(RuleState, nodeQueue[pos].node))
    /\ UNCHANGED importMap

\* the ":exit" handlers of the same types
FunctionExit ==
    /\ AtHandler(PROGRAM_OR_FUNCTION_TYPES, TRUE)
    /\ Return(onFunctionExit(RuleState, nodeQueue[pos].node))
    /\ UNCHANGED importMap

\* the parent of a node, seen through ignoreTransparentWrappers(parent, true)
ParentType(node) == tree[tree[node].parent].type

\* a CallExpression handler that checks every call, captured or not (the test
\* of the parent in line 2475 left out)
checkEveryCall(s, node) ==
    checkForReactiveAssignment(s, "", "", CalleeOfInit(node), node)

\* the end of the CallExpression handler (lines 2474-2477)
checkCallAssignment(s, node) ==
    IF ParentType(node) \notin {"AssignmentExpression", "VariableDeclarator"}
        THEN checkForReactiveAssignment(s, "", "", CalleeOfInit(node), node)
        ELSE s

\* CallExpression (lines 2471-2478)
CallExpression ==
    /\ AtHandler({"CallExpression"}, FALSE)
    /\ Return(checkCallAssignment(
                  checkForSyncCallbacks(
                      checkForTrackedScopes(RuleState, nodeQueue[pos].node),
                      nodeQueue[pos].node),
                  nodeQueue[pos].node))
    /\ UNCHANGED importMap

\* VariableDeclarator (lines 2482-2487); the declarators of the trees have an
\* initializer, and none calls createReactive or createReaction
VariableDeclarator ==
    /\ AtHandler({"VariableDeclarator"}, FALSE)
    /\ LET node == nodeQueue[pos].node
       IN  Return(checkForReactiveAssignment(
                      RuleState, tree[node].idType, tree[node].var,
                      CalleeOfInit(NthChild(node, 1)), node))
    /\ UNCHANGED importMap

\* AssignmentExpression (lines 2488-2493): the right side is a call of an
\* identifier (node.callee), the left side a pattern, an identifier or a
\* member expression
AssignmentExpression ==
    /\ AtHandler({"AssignmentExpression"}, FALSE)
    /\ LET node == nodeQueue[pos].node
       IN  Return(IF tree[node].idType # "MemberExpression"
                      THEN checkForReactiveAssignment(
                               RuleState, tree[node].idType, tree[node].var,
                               tree[node].callee, node)
                      ELSE RuleState)
    /\ UNCHANGED importMap

\* JSXExpressionContainer (lines 2465-2467)
JSXExpressionContainer ==
    /\ AtHandler({"JSXExpressionContainer"}, FALSE)
    /\ Return(checkForTrackedScopesJSX(RuleState, nodeQueue[pos].node))
    /\ UNCHANGED importMap

\* JSXSpreadAttribute (lines 2468-2470)
JSXSpreadAttribute ==
    /\ AtHandler({"JSXSpreadAttribute"}, FALSE)
    /\ Return(checkForTrackedScopesJSX(RuleState, nodeQueue[pos].node))
    /\ UNCHANGED importMap

\* JSXElement (lines 2525-2529)
JSXElement ==
    /\ AtHandler({"JSXElement"}, FALSE)
    /\ Return(markJSX(RuleState))
    /\ UNCHANGED importMap

Next ==
    \/ Parse
    \/ create
    \/ ImportDeclaration
    \/ FunctionEnter
    \/ FunctionExit
    \/ CallExpression
    \/ VariableDeclarator
    \/ AssignmentExpression

Spec == Init /\ [][Next]_vars

\* one run of the rule over a tree of the second family
NextCaptures ==
    \/ ParseCaptures
    \/ create
    \/ ImportDeclaration
    \/ FunctionEnter
    \/ FunctionExit
    \/ CallExpression
    \/ VariableDeclarator
    \/ AssignmentExpression

SpecCaptures == Init /\ [][NextCaptures]_vars

\* one run of the rule over a tree of the third family
NextContexts ==
    \/ ParseContexts
    \/ create
    \/ ImportDeclaration
    \/ FunctionEnter
    \/ FunctionExit
    \/ CallExpression
    \/ VariableDeclarator
    \/ AssignmentExpression
    \/ JSXExpressionContainer
    \/ JSXSpreadAttribute
    \/ JSXElement

SpecContexts == Init /\ [][NextContexts]_vars

\* one run of the rule over a tree of the fourth family
NextHooks ==
    \/ ParseHooks
    \/ create
    \/ ImportDeclaration
    \/ FunctionEnter
    \/ FunctionExit
    \/ CallExpression
    \/ VariableDeclarator

SpecHooks == Init /\ [][NextHooks]_vars

\* the same as Spec, with every tree linted MaxRuns times
NextAgain ==
    \/ Next
    \/ createAgain

SpecAgain == Init /\ [][NextAgain]_vars

-----------------------------------------------------------------------------
(* Properties.  The histories `registered` and `yielded` tell what was     *)
(* pushed and what the drains yielded; a binding is known by its id, the   *)
(* index of its registration.                                              *)

\* the walk is over: the exit handler of the Program has returned
Done == pos > Len(nodeQueue) /\ pos >= 1 /\ fault = "none"

Range(seq) == {seq[i] : i \in 1..Len(seq)}

\* the function or Program a is a proper ancestor of the function f
Encloses(a, f) == a # f /\ a \in PathToRoot(f)

\* the bindings of the two lists that are alive
LiveBindings ==
    {<<"signals", i>> : i \in 1..Len(signals)} \cup {<<"props", i>> : i \in 1..Len(props)}

BindingAt(l) == IF l[1] = "signals" THEN signals[l[2]] ELSE props[l[2]]

\* the references the binding with this id still holds
HeldBy(id) ==
    UNION {Range(BindingAt(l).references) :
               l \in {m \in LiveBindings : BindingAt(m).id = id}}

\* the yields of the binding with this id, as indices of the history
YieldsOf(id) == {k \in 1..Len(yielded) : yielded[k].id = id}

YieldedBy(id) == {yielded[k].reference : k \in YieldsOf(id)}

\* C1: conservation.  For every registered binding, at every point of the
\* walk and after the exit of the Program, its non-initializer references are
\* the references its drains have yielded together with the references it
\* still holds; no reference of it is yielded twice; and between two handlers
\* no yielded reference is still held.  (A handler that throws ends the run in
\* the middle of a drain: what that drain yielded is then still in the list.)
C1_Conservation ==
    \A id \in 1..Len(registered) :
        /\ YieldedBy(id) \cup HeldBy(id) = Range(registered[id].references)
        /\ \A j, k \in YieldsOf(id) : yielded[j].reference = yielded[k].reference => j = k
        /\ fault = "none" => YieldedBy(id) \cap HeldBy(id) = {}

\* a binding whose references were yielded by the drains of two frames, after
\* the exit of the Program
C1_Witness ==
    /\ Done
    /\ \E id \in 1..Len(registered) :
           /\ \E j, k \in YieldsOf(id) : yielded[j].frame # yielded[k].frame
           /\ YieldedBy(id) = Range(registered[id].references)

\* C2: a reference belongs to at most one live binding and is never yielded
\* twice: no two live bindings of the signal and props lists hold the same
\* reference, and no reference is yielded twice across all drains.
C2_OneLiveBinding ==
    /\ \A l, m \in LiveBindings :
           l # m => Range(BindingAt(l).references) \cap Range(BindingAt(m).references) = {}
    /\ \A j, k \in 1..Len(yielded) : yielded[j].reference = yielded[k].reference => j = k

\* C3: when the exit of the Program completes, no registered binding still
\* holds a reference: every non-initializer reference has been consumed by a
\* drain.
C3_AllConsumed ==
    Done => \A id \in 1..Len(registered) : HeldBy(id) = {}

\* C4: a write reference of a signal binding gets exactly one noWrite report,
\* on its identifier, from the drain that yields it, whatever the declaration
\* scope of the binding and the tracked scopes of the exiting frame.
C4_WriteIsReported ==
    \A k \in 1..Len(yielded) :
        (yielded[k].list = "signals" /\ isWrite(yielded[k].reference))
            => yielded[k].reports =
                   <<[messageId |-> "noWrite", node |-> yielded[k].reference, where |-> ""]>>

\* a write that crosses a closure boundary, drained from a frame that has a
\* tracked scope
C4_Witness ==
    \E k \in 1..Len(yielded) :
        /\ yielded[k].list = "signals"
        /\ isWrite(yielded[k].reference)
        /\ Encloses(yielded[k].declarationScope, yielded[k].frame)
        /\ yielded[k].entries # <<>>
        /\ Len(yielded[k].reports) = 1

\* the yield is an invoked read of a signal binding: `v()`
InvokedRead(k) ==
    /\ yielded[k].list = "signals"
    /\ ~isWrite(yielded[k].reference)
    /\ tree[yielded[k].reference].ptype = "CallExpression"

\* the yield is a read of a signal binding that is an operand of a binary operator
BinaryOperand(k) ==
    /\ yielded[k].list = "signals"
    /\ ~isWrite(yielded[k].reference)
    /\ tree[yielded[k].reference].ptype = "BinaryExpression"

\* the yield is an uninvoked read of a signal binding that is the body of an arrow
BodyOfArrow(k) ==
    /\ yielded[k].list = "signals"
    /\ ~isWrite(yielded[k].reference)
    /\ tree[yielded[k].reference].ptype = "ArrowFunctionExpression"

\* the exiting frame of the yield is the node of a function-kind tracked scope
\* of the frame below it
InTrackedFunction(k) ==
    \E e \in Range(yielded[k].parentEntries) :
        e.node = yielded[k].frame /\ e.expect = "function"

\* a tracked scope of the exiting frame matches the yielded reference
MatchedInFrame(k) ==
    \E e \in Range(yielded[k].entries) :
        IF e.expect \in {"function", "called-function"}
            THEN e.node = yielded[k].reference
            ELSE findInScope(yielded[k].reference, yielded[k].frame, e.node) # 0

\* the variable a function is assigned to or declared as, "" for an anonymous one
NameOf(f) ==
    IF tree[f].type = "FunctionDeclaration" THEN tree[f].var
    ELSE IF isFunctionNode(f) /\ tree[tree[f].parent].type = "VariableDeclarator"
        THEN tree[tree[f].parent].var
    ELSE ""

\* the yield is a call of a variable that a function is assigned to
CallOfFunctionVariable(k) ==
    /\ InvokedRead(k)
    /\ \E f \in 1..Len(tree) : NameOf(f) = tree[yielded[k].reference].var

Reported(messageId, node, where) ==
    <<[messageId |-> messageId, node |-> node, where |-> where]>>

UnnamedReportsAt(f) ==
    {i \in 1..Len(diagnostics) :
        diagnostics[i].messageId = "badUnnamedDerivedSignal" /\ diagnostics[i].node = f}

\* C5: an invoked read of a signal in the frame the signal is declared in,
\* where that frame has no tracked scope, gets exactly one untrackedReactive
\* report from the drain that yields it.
C5_InFrameReadIsUntracked ==
    \A k \in 1..Len(yielded) :
        (/\ InvokedRead(k)
         /\ yielded[k].declarationScope = yielded[k].frame
         /\ yielded[k].entries = <<>>)
            => yielded[k].reports = Reported("untrackedReactive", yielded[k].reference, "")

\* C5 as claimed: such a read gets no report.
C5_InFrameReadIsSilent ==
    \A k \in 1..Len(yielded) :
        (/\ InvokedRead(k)
         /\ yielded[k].declarationScope = yielded[k].frame
         /\ yielded[k].entries = <<>>)
            => yielded[k].reports = <<>>

\* `const [count] = createSignal(); count()` at the root of the Program
C5_Witness ==
    \E k \in 1..Len(yielded) :
        /\ InvokedRead(k)
        /\ tree[yielded[k].reference].var = FactoryVar
        /\ yielded[k].declarationScope = 1
        /\ yielded[k].frame = 1
        /\ yielded[k].entries = <<>>
        /\ Len(yielded[k].reports) = 1

\* the binary operators whose operand is reported
ReportedOperators ==
    {"+", "-", "*", "/", "%", "**", "<<", ">>", ">>>", "|", "^", "&", "<", "<=", ">",
     ">=", "in"}

\* the arithmetic and the comparison operators of the language
ArithmeticOperators == {"+", "-", "*", "/", "%", "**"}

ComparisonOperators == {"<", "<=", ">", ">=", "==", "!=", "===", "!=="}

\* C6: an uninvoked read of a signal in the frame the signal is declared in
\* that is an operand of one of the operators + - * / % ** << >> >>> | ^ & <
\* <= > >= in gets exactly one badSignal (arithmetic or comparisons) report on
\* its identifier from the drain that yields it; an operand of another binary
\* operator, such as ===, gets none.
C6_OperandIsReported ==
    \A k \in 1..Len(yielded) :
        (BinaryOperand(k) /\ yielded[k].declarationScope = yielded[k].frame)
            => yielded[k].reports =
                   IF tree[yielded[k].reference].operator \in ReportedOperators
                       THEN Reported("badSignal", yielded[k].reference,
                                     "arithmetic or comparisons")
                       ELSE <<>>

\* C6 as claimed: the operand of every arithmetic or comparison operator gets
\* exactly one badSignal report.
C6_EveryComparisonIsReported ==
    \A k \in 1..Len(yielded) :
        (/\ BinaryOperand(k)
         /\ yielded[k].declarationScope = yielded[k].frame
         /\ tree[yielded[k].reference].operator
                \in ArithmeticOperators \cup ComparisonOperators)
            => yielded[k].reports =
                   Reported("badSignal", yielded[k].reference, "arithmetic or comparisons")

\* `const [count] = createSignal(); count + 1`
C6_Witness ==
    \E k \in 1..Len(yielded) :
        /\ BinaryOperand(k)
        /\ yielded[k].declarationScope = yielded[k].frame
        /\ tree[yielded[k].reference].operator = "+"
        /\ Len(yielded[k].reports) = 1

\* C7: an invoked read of a signal inside a function that is the node of a
\* function-kind tracked scope of its parent frame, where the signal is not
\* declared in that function, gets no report from the drain that yields it,
\* and the function is never reported as an unnamed derived signal.
C7_TrackedReadIsSilent ==
    \A k \in 1..Len(yielded) :
        (/\ InvokedRead(k)
         /\ InTrackedFunction(k)
         /\ yielded[k].declarationScope # yielded[k].frame)
            => /\ yielded[k].reports = <<>>
               /\ UnnamedReportsAt(yielded[k].frame) = {}

\* `const [count] = createSignal(); createEffect(() => { count() })`, walked to
\* the end without a report
C7_Witness ==
    /\ Done
    /\ diagnostics = <<>>
    /\ \E k \in 1..Len(yielded) :
           /\ InvokedRead(k)
           /\ InTrackedFunction(k)
           /\ tree[yielded[k].reference].var = FactoryVar
           /\ Encloses(yielded[k].declarationScope, yielded[k].frame)

\* C8: an uninvoked read of a signal that is the whole body of a function
\* that is a tracked scope of its parent frame (`createEffect(() => count)`)
\* gets no report: the body of an arrow is none of the contexts that the
\* calling-convention chain reports.
C8_BodyReadIsSilent ==
    \A k \in 1..Len(yielded) :
        (BodyOfArrow(k) /\ InTrackedFunction(k)) => yielded[k].reports = <<>>

\* C8 as claimed: such a read gets exactly one badSignal report.
C8_BodyReadIsReported ==
    \A k \in 1..Len(yielded) :
        (BodyOfArrow(k) /\ InTrackedFunction(k))
            => /\ Len(yielded[k].reports) = 1
               /\ yielded[k].reports[1].messageId = "badSignal"

\* `const [count] = createSignal(); createEffect(() => count)`, walked to the end
C8_Witness ==
    /\ Done
    /\ diagnostics = <<>>
    /\ \E k \in 1..Len(yielded) :
           /\ BodyOfArrow(k)
           /\ InTrackedFunction(k)
           /\ Encloses(yielded[k].declarationScope, yielded[k].frame)

\* the call of a function variable inside a tracked function gets no report,
\* and the tracked function is not reported either
CallIsSilent(k) ==
    /\ yielded[k].reports = <<>>
    /\ UnnamedReportsAt(yielded[k].frame) = {}

\* C9: when a function assigned to a variable reads, by an invoked read that
\* no tracked scope of the function matches, a signal that is not declared in
\* that function, the variable is registered as a signal binding when the
\* exit handler of the function returns; and a call of such a
\* variable inside a function that is a tracked scope of its parent frame, and
\* that is not the declaration scope of the binding, gets no report.
C9_DerivedSignalTracked ==
    \A k \in 1..Len(yielded) :
        /\ (/\ InvokedRead(k)
            /\ NameOf(yielded[k].frame) # ""
            /\ yielded[k].declarationScope # yielded[k].frame
            /\ ~MatchedInFrame(k))
               => \E r \in 1..Len(registered) :
                      /\ registered[r].list = "signals"
                      /\ registered[r].variable = NameOf(yielded[k].frame)
                      /\ registered[r].at <= yielded[k].at
        /\ (/\ CallOfFunctionVariable(k)
            /\ InTrackedFunction(k)
            /\ yielded[k].declarationScope # yielded[k].frame)
               => CallIsSilent(k)

\* C9 as claimed: every call of the variable inside a function that is a
\* tracked scope of its parent frame gets no report.
C9_EveryTrackedCallIsSilent ==
    \A k \in 1..Len(yielded) :
        (CallOfFunctionVariable(k) /\ InTrackedFunction(k)) => CallIsSilent(k)

\* `const [count] = createSignal(); const isPositive = () => { count() };
\* createEffect(() => { isPositive() })`, walked to the end without a report
C9_Witness ==
    /\ Done
    /\ diagnostics = <<>>
    /\ \E k \in 1..Len(yielded) :
           /\ CallOfFunctionVariable(k)
           /\ InTrackedFunction(k)
           /\ \E j \in 1..Len(yielded) :
                  /\ InvokedRead(j)
                  /\ NameOf(yielded[j].frame) = tree[yielded[k].reference].var
                  /\ tree[yielded[j].reference].var = FactoryVar
                  /\ yielded[j].declarationScope = yielded[k].declarationScope
                  /\ yielded[j].at < yielded[k].at

\* C10: a call of a variable that a function is assigned to, yielded by the
\* exit of a frame that has no tracked scope, gets exactly one
\* untrackedReactive report at the call when the frame is the declaration
\* scope of the binding, and none otherwise; and no badUnnamedDerivedSignal
\* report is ever located at a function that has a name.
C10_DerivedSignalUntracked ==
    /\ \A k \in 1..Len(yielded) :
           (CallOfFunctionVariable(k) /\ yielded[k].entries = <<>>)
               => yielded[k].reports =
                      IF yielded[k].declarationScope = yielded[k].frame
                          THEN Reported("untrackedReactive", yielded[k].reference, "")
                          ELSE <<>>
    /\ \A i \in 1..Len(diagnostics) :
           diagnostics[i].messageId = "badUnnamedDerivedSignal"
               => NameOf(diagnostics[i].node) = ""

\* C10 as claimed: the run reports exactly one diagnostic, a
\* badUnnamedDerivedSignal located at the function the variable is assigned.
C10_ReportedAtDeclaration ==
    \A k \in 1..Len(yielded) :
        (/\ Done
         /\ CallOfFunctionVariable(k)
         /\ yielded[k].declarationScope = yielded[k].frame
         /\ yielded[k].entries = <<>>)
            => /\ Len(diagnostics) = 1
               /\ diagnostics[1].messageId = "badUnnamedDerivedSignal"
               /\ NameOf(diagnostics[1].node) = tree[yielded[k].reference].var

\* `const [count] = createSignal(); const isPositive = () => { count() };
\* isPositive()`, walked to the end with one report
C10_Witness ==
    /\ Done
    /\ Len(diagnostics) = 1
    /\ \E k \in 1..Len(yielded) :
           /\ CallOfFunctionVariable(k)
           /\ yielded[k].declarationScope = yielded[k].frame
           /\ yielded[k].entries = <<>>
           /\ yielded[k].reports = diagnostics
           /\ \E j \in 1..Len(yielded) :
                  /\ InvokedRead(j)
                  /\ NameOf(yielded[j].frame) = tree[yielded[k].reference].var
                  /\ tree[yielded[j].reference].var = FactoryVar

-----------------------------------------------------------------------------
(* Runs of the rule on the same tree (SpecAgain).                          *)

\* what the run that is over has produced
Outcome == [diagnostics |-> diagnostics, fault |-> fault]

-----------------------------------------------------------------------------
(* The frames taken off the stack.                                         *)

\* every frame of the run: the ones on the stack and the ones taken off it
Frames == Range(scopeStack) \cup {popped[i].frame : i \in 1..Len(popped)}

\* the tracked-scope entries ever registered for node n, each known by its
\* frame and its index
EntriesOf(n) ==
    UNION {{<<f.node, e>> : e \in {e \in 1..Len(f.trackedScopes) :
                                     f.trackedScopes[e].node = n}} : f \in Frames}

\* the entries for n that expect a called function
CalledEntriesOf(n) ==
    UNION {{<<f.node, e>> : e \in {e \in 1..Len(f.trackedScopes) :
                                     /\ f.trackedScopes[e].node = n
                                     /\ f.trackedScopes[e].expect = "called-function"}} :
              f \in Frames}

ReportsAt(messageIds, n) ==
    Cardinality({d \in 1..Len(diagnostics) :
                    /\ diagnostics[d].messageId \in messageIds
                    /\ diagnostics[d].node = n})

\* the entry e of a frame matches the function f
EntryMatches(frame, e, f) ==
    IF frame.trackedScopes[e].expect = "expression"
        THEN findInScope(f, frame.node, frame.trackedScopes[e].node) # 0
        ELSE frame.trackedScopes[e].node = f

\* f was added to the unnamed derived signals of the frame and no entry of the
\* frame matches it
UnmatchedIn(frame, f) ==
    /\ f \in Range(frame.unnamedDerivedSignals)
    /\ \A e \in 1..Len(frame.trackedScopes) : ~EntryMatches(frame, e, f)

\* C13: once a frame has exited (and so, when the walk is over, for every
\* frame), each function in its unnamedDerivedSignals set that matches no
\* tracked-scope entry of the frame has exactly one badUnnamedDerivedSignal
\* diagnostic, located at the function, and each one that matches an entry
\* has none.
C13_UnnamedDerivedChecked ==
    /\ \A i \in 1..Len(popped) :
           \A f \in Range(popped[i].frame.unnamedDerivedSignals) :
               ReportsAt({"badUnnamedDerivedSignal"}, f) =
                   IF UnmatchedIn(popped[i].frame, f) THEN 1 ELSE 0
    /\ Done => scopeStack = <<>>

\* the walk is over; one function was added to a set and reported once,
\* another was added, matched by an entry and not reported
C13_Witness ==
    /\ Done
    /\ \E i \in 1..Len(popped) :
           \E f \in Range(popped[i].frame.unnamedDerivedSignals) :
               /\ UnmatchedIn(popped[i].frame, f)
               /\ ReportsAt({"badUnnamedDerivedSignal"}, f) = 1
    /\ \E i \in 1..Len(popped) :
           \E f \in Range(popped[i].frame.unnamedDerivedSignals) :
               ~UnmatchedIn(popped[i].frame, f)

-----------------------------------------------------------------------------
(* Merges of declaration scopes.                                           *)

\* n was the node of a frame on the stack when the merge m was made
OnStackOf(m, n) == \E i \in 1..Len(m.stack) : m.stack[i] = n

\* n is the node of a frame on the stack
OnStack(n) == \E i \in 1..Len(scopeStack) : scopeStack[i].node = n

\* the functions and the Program of the tree
ScopeNodes == {n \in 1..Len(tree) : isProgramOrFunctionNode(n)}

C16_DeepestOfTwoFrames ==
    /\ \A i, j \in 1..Len(scopeStack) :
           findDeepestDeclarationScope(RuleState, scopeStack[i].node, scopeStack[j].node)
               = scopeStack[IF i >= j THEN i ELSE j].node
    /\ \A k \in 1..Len(merged) :
           \A i, j \in 1..Len(merged[k].stack) :
               (merged[k].stack[i] = merged[k].a /\ merged[k].stack[j] = merged[k].b)
                   => merged[k].deepest = merged[k].stack[IF i >= j THEN i ELSE j]

\* a merge of two different frames of the stack was made, the requested scope
\* being the deeper one
C16_Witness ==
    \E k \in 1..Len(merged) :
        \E i, j \in 1..Len(merged[k].stack) :
            /\ merged[k].stack[i] = merged[k].a
            /\ merged[k].stack[j] = merged[k].b
            /\ i < j
            /\ merged[k].deepest = merged[k].b

\* C17 (as stated): a merge of two scopes of which one is not on the stack
\* throws.
C17_ThrowsUnlessBothOnStack ==
    \A k \in 1..Len(merged) :
        (~OnStackOf(merged[k], merged[k].a) \/ ~OnStackOf(merged[k], merged[k].b))
            => merged[k].deepest = 0

\* C17 (amended): findDeepestDeclarationScope(a, b) throws exactly when a and
\* b differ and neither is on the stack; it returns a when a = b, on the stack
\* or not, and the one that is on the stack when only one is.  Every merge the
\* run has made agrees, and a merge that threw has ended the run.
C17_ThrowsIfNeitherOnStack ==
    /\ \A a, b \in ScopeNodes :
           LET deepest == findDeepestDeclarationScope(RuleState, a, b)
           IN  /\ deepest = 0 <=> (a # b /\ ~OnStack(a) /\ ~OnStack(b))
               /\ a = b => deepest = a
               /\ (OnStack(a) /\ ~OnStack(b)) => deepest = a
               /\ (OnStack(b) /\ ~OnStack(a)) => deepest = b
    /\ \A k \in 1..Len(merged) :
           /\ merged[k].deepest = 0 <=>
                  /\ merged[k].a # merged[k].b
                  /\ ~OnStackOf(merged[k], merged[k].a)
                  /\ ~OnStackOf(merged[k], merged[k].b)
           /\ merged[k].deepest = 0 => fault = "This should never happen"

\* a merge with a scope that was not on the stack was made and returned a scope
C17_Witness ==
    \E k \in 1..Len(merged) :
        /\ ~OnStackOf(merged[k], merged[k].b)
        /\ merged[k].deepest # 0

-----------------------------------------------------------------------------
(* The stack and the walk.                                                 *)

\* the enter handler of n has returned
Entered(n) ==
    pos >= 1 /\ \E i \in 1..(pos - 1) : nodeQueue[i].node = n /\ ~nodeQueue[i].exit

\* the exit handler of n has returned
Exited(n) ==
    pos >= 1 /\ \E i \in 1..(pos - 1) : nodeQueue[i].node = n /\ nodeQueue[i].exit

\* the functions (and the Program) that are open: the node being visited is
\* one of them or inside all of them
OpenScopes == {n \in ScopeNodes : Entered(n) /\ ~Exited(n)}

\* the stack holds one frame for each node of the set, in nesting order
OneFrameFor(open) ==
    /\ Len(scopeStack) = Cardinality(open)
    /\ \A i \in 1..Len(scopeStack) : scopeStack[i].node \in open
    /\ \A i, j \in 1..Len(scopeStack) :
           i < j => Encloses(scopeStack[i].node, scopeStack[j].node)

\* C18 (as stated): between the handlers of a walk that has not thrown, the
\* stack holds one frame for each open function or Program node, in nesting
\* order.
C18_OneFramePerOpenScope == fault = "none" => OneFrameFor(OpenScopes)

\* C18 (amended): it holds one frame for each open function or Program node
\* that is not in the sync-callback set, in nesting order; an open synchronous
\* callback has no frame.
C18_OneFramePerOpenFrameScope ==
    fault = "none" => OneFrameFor(OpenScopes \ syncCallbacks)

\* the walk is inside a synchronous callback that is nested in a function
C18_Witness ==
    /\ fault = "none"
    /\ Len(scopeStack) = 2
    /\ Cardinality(OpenScopes) = 3
    /\ OpenScopes \cap syncCallbacks # {}

\* the pops made by the exit handler of n
PopsBy(n) == {k \in 1..Len(popped) : nodeQueue[popped[k].at].node = n}

NearestFrameScope(r) ==
    LET around == {n \in PathToRoot(tree[r].parent) :
                      isProgramOrFunctionNode(n) /\ n \notin syncCallbacks}
    IN  IF around = {} THEN 0
        ELSE CHOOSE n \in around : \A m \in around : m \in PathToRoot(n)

\* C20: with a frame on the stack, isReferenceInCurrentScope(reference) is
\* true exactly when the nearest function or Program around the reference
\* that is not in the sync-callback set is the node of the top frame; every
\* reference a drain has yielded was yielded for that frame.
C20_InCurrentScope ==
    /\ scopeStack # <<>> =>
           \A r \in 1..Len(tree) :
               tree[r].type = "Identifier" =>
                   (isReferenceInCurrentScope(RuleState, r)
                        <=> NearestFrameScope(r) = currentScope(RuleState).node)
    /\ \A k \in 1..Len(yielded) :
           NearestFrameScope(yielded[k].reference) = yielded[k].frame

\* a reference inside a synchronous callback was yielded by the drain of the
\* function around the callback
C20_Witness ==
    \E k \in 1..Len(yielded) :
        /\ findParent(yielded[k].reference) \in syncCallbacks
        /\ isFunctionNode(yielded[k].frame)

\* the bindings pushed by the enter handler of a node (a declarator, a call
\* or an assignment), not by a drain
RegisteredOnEnter == {r \in 1..Len(registered) : ~nodeQueue[registered[r].at].exit}

-----------------------------------------------------------------------------
(* Tracked-scope entries and declaration shapes (SpecCaptures).            *)

AsyncFunctions == {n \in 1..Len(tree) : isFunctionNode(n) /\ tree[n].async}

\* C12 (as stated): every asynchronous function that is registered as a
\* tracked-scope entry, also with expectation called-function, has a
\* noAsyncTrackedScope diagnostic for each registration.
C12_EveryAsyncEntryIsReported ==
    \A n \in AsyncFunctions :
        ReportsAt({"noAsyncTrackedScope"}, n) = Cardinality(EntriesOf(n))

\* C12 (amended): an asynchronous function has one noAsyncTrackedScope
\* diagnostic for each of its registrations that expects a function or an
\* expression, and none for a registration that expects a called function;
\* no such diagnostic is located anywhere else.
C12_AsyncTrackedFunctionIsReported ==
    \A n \in 1..Len(tree) :
        ReportsAt({"noAsyncTrackedScope"}, n) =
            IF n \in AsyncFunctions
                THEN Cardinality(EntriesOf(n) \ CalledEntriesOf(n))
                ELSE 0

\* the walk is over; one asynchronous function was registered as a tracked
\* function and reported, another as a called function and not reported
C12_Witness ==
    /\ Done
    /\ \E n \in AsyncFunctions :
           /\ EntriesOf(n) \ CalledEntriesOf(n) # {}
           /\ ReportsAt({"noAsyncTrackedScope"}, n) = 1
    /\ \E n \in AsyncFunctions :
           /\ CalledEntriesOf(n) # {}
           /\ ReportsAt({"noAsyncTrackedScope"}, n) = 0

\* the calls of a factory
FactoryCalls ==
    {c \in 1..Len(tree) :
        tree[c].type = "CallExpression" /\ ~tree[c].member /\ tree[c].callee \in Factories}

\* the node that captures the result of the call c: the declarator or the
\* assignment it is the right side of, else the call itself
CaptureOf(c) ==
    IF ParentType(c) \in {"VariableDeclarator", "AssignmentExpression"}
        THEN tree[c].parent
        ELSE c

\* the shape the result is captured in; "" when it is discarded
ShapeOf(c) == IF CaptureOf(c) = c THEN "" ELSE tree[CaptureOf(c)].idType

RequiredShape(c) ==
    IF tree[c].callee \in {"createSignal", "useTransition", "createStore"}
        THEN "ArrayPattern"
        ELSE "Identifier"

AdvisoryFor(c) ==
    IF RequiredShape(c) = "ArrayPattern" THEN "shouldDestructure" ELSE "shouldAssign"

\* the handlers of the call and of the node that captures it have returned
Handled(c) ==
    /\ pos >= 1
    /\ \E i \in 1..(pos - 1) : nodeQueue[i].node = c /\ ~nodeQueue[i].exit

\* the advisories of kind m located at the call or at the node that captures it
AdvisoriesOf(m, c) ==
    Cardinality({d \in 1..Len(diagnostics) :
                    /\ diagnostics[d].messageId \in m
                    /\ diagnostics[d].node \in {c, CaptureOf(c)}})

\* the bindings registered by the handlers of the call and of its capture
BindingsOf(c) ==
    {r \in 1..Len(registered) : nodeQueue[registered[r].at].node \in {c, CaptureOf(c)}}

\* exactly one advisory, of the kind of the factory; nothing registered
OneAdvisory(c) ==
    /\ AdvisoriesOf({AdvisoryFor(c)}, c) = 1
    /\ AdvisoriesOf({"shouldDestructure", "shouldAssign"}, c) = 1
    /\ BindingsOf(c) = {}

\* C14 (as stated): a factory call whose result is not captured in the
\* required shape - discarded and assigned to a member expression included -
\* has exactly one declaration-shape advisory and no binding once its handlers
\* have returned, and no handler has thrown.
C14_EveryBadShapeIsAdvised ==
    /\ fault = "none"
    /\ \A c \in FactoryCalls :
           (Handled(c) /\ ShapeOf(c) # RequiredShape(c)) => OneAdvisory(c)

\* C14 (amended): the same for every shape but one: a result that is assigned
\* to a member expression has no advisory and no binding.
C14_BadShapeIsAdvised ==
    /\ fault = "none"
    /\ \A c \in FactoryCalls :
           Handled(c) =>
               /\ ShapeOf(c) \notin {RequiredShape(c), "MemberExpression"}
                      => OneAdvisory(c)
               /\ ShapeOf(c) = "MemberExpression"
                      => /\ AdvisoriesOf({"shouldDestructure", "shouldAssign"}, c) = 0
                         /\ BindingsOf(c) = {}

\* the walk is over; the result of one call was captured in the wrong pattern
\* and advised, the result of another was assigned to a member expression
C14_Witness ==
    /\ Done
    /\ \E c \in FactoryCalls :
           /\ ShapeOf(c) \notin {RequiredShape(c), "MemberExpression", ""}
           /\ OneAdvisory(c)
    /\ \E c \in FactoryCalls :
           /\ ShapeOf(c) = "MemberExpression"
           /\ AdvisoriesOf({"shouldDestructure", "shouldAssign"}, c) = 0

-----------------------------------------------------------------------------
(* Reads in every context (SpecContexts).                                  *)

\* the node of the entry is the read site of the yield or an ancestor of it
\* below the node of the exiting frame
InsideEntry(k, e) ==
    /\ e.node \in PathToRoot(yielded[k].reference)
    /\ Encloses(yielded[k].frame, e.node)

\* an entry of the exiting frame that expects a function is the read site itself
ExactFunctionEntry(k) ==
    \E e \in Range(yielded[k].entries) :
        e.expect \in {"function", "called-function"} /\ e.node = yielded[k].reference

\* an entry of the exiting frame that expects an expression holds the read site
InsideExpressionEntry(k) ==
    \E e \in Range(yielded[k].entries) : e.expect = "expression" /\ InsideEntry(k, e)

\* the yield is an invoked read of a signal that is declared in the exiting frame
InvokedReadInFrame(k) ==
    InvokedRead(k) /\ yielded[k].declarationScope = yielded[k].frame

\* C22 (as stated): an invoked read declared in the exiting frame gets
\* exactly one untrackedReactive report when no entry of the frame matches
\* it, and exactly one expectedFunctionGotExpression report when an
\* expression entry holds it and no function entry is the read site itself.
C22_ExpressionEntryNeedsWrapper ==
    \A k \in 1..Len(yielded) :
        InvokedReadInFrame(k) =>
            /\ (~ExactFunctionEntry(k) /\ ~InsideExpressionEntry(k))
                   => yielded[k].reports
                          = Reported("untrackedReactive", yielded[k].reference, "")
            /\ (InsideExpressionEntry(k) /\ ~ExactFunctionEntry(k))
                   => yielded[k].reports
                          = Reported("expectedFunctionGotExpression",
                                     yielded[k].reference, "")

\* C22 (amended): an invoked read declared in the exiting frame gets no
\* report when an entry of the frame matches it (a function entry that is the
\* read site, or an expression entry that holds it); when none matches it
\* gets exactly one report: expectedFunctionGotExpression if the node of some
\* entry of the frame holds the read site, untrackedReactive if none does.
C22_UnmatchedReadIsReportedOnce ==
    \A k \in 1..Len(yielded) :
        InvokedReadInFrame(k) =>
            yielded[k].reports =
                IF ExactFunctionEntry(k) \/ InsideExpressionEntry(k) THEN <<>>
                ELSE IF \E e \in Range(yielded[k].entries) : InsideEntry(k, e)
                    THEN Reported("expectedFunctionGotExpression",
                                  yielded[k].reference, "")
                ELSE Reported("untrackedReactive", yielded[k].reference, "")

\* `createEffect(count())`: the read is inside the argument that is expected
\* to be a function, and is told to be wrapped in one
C22_Witness ==
    \E k \in 1..Len(yielded) :
        /\ InvokedReadInFrame(k)
        /\ \E e \in Range(yielded[k].entries) :
               e.expect = "function" /\ InsideEntry(k, e)
        /\ yielded[k].reports
               = Reported("expectedFunctionGotExpression", yielded[k].reference, "")

\* the yield is a read that handleTrackedScopes classifies: an invoked read of
\* a signal, or an access to a property of a props binding that is not the
\* target of an assignment and whose name is not exempt
ClassifiedRead(k) ==
    LET node == tree[yielded[k].reference]
    IN  \/ InvokedRead(k)
        \/ /\ yielded[k].list = "props"
           /\ ~isWrite(yielded[k].reference)
           /\ node.ptype = "MemberExpression"
           /\ node.operator = "object"
           /\ ~IsInitialDefaultStatic(node.name)

\* the yield is a read of a binding of either list
AnyRead(k) == ~isWrite(yielded[k].reference)

HasReport(k, messageIds) ==
    \E i \in 1..Len(yielded[k].reports) : yielded[k].reports[i].messageId \in messageIds

\* the exit that made the yield promoted its function to a derived signal (a
\* tree of the family has one use, so a promotion of the exit is the yield's)
Promoted(k) ==
    \/ \E r \in 1..Len(registered) : registered[r].at = yielded[k].at
    \/ \E m \in 1..Len(merged) : merged[m].at = yielded[k].at
    \/ \E f \in Frames :
           \E i \in 1..Len(f.unnamedDerivedSignals) :
               f.unnamedDerivedSignals[i] = yielded[k].frame

\* C23 (as stated): a read inside the node of an expression entry of the
\* exiting frame gets neither an untrackedReactive nor an
\* expectedFunctionGotExpression report and promotes nothing.
C23_ReadInExpressionIsTracked ==
    \A k \in 1..Len(yielded) :
        (AnyRead(k) /\ InsideExpressionEntry(k)) =>
            /\ ~HasReport(k, {"untrackedReactive", "expectedFunctionGotExpression"})
            /\ ~Promoted(k)

\* C23 (amended): a read that handleTrackedScopes classifies and that is
\* inside the node of an expression entry of the exiting frame gets no
\* report and promotes nothing; a function entry tracks the identical node
\* only: a classified read of the frame's own binding that is in no
\* expression entry and is not itself the node of a function entry is
\* reported, whatever function entry holds it.
C23_ClassifiedReadInExpressionIsTracked ==
    \A k \in 1..Len(yielded) :
        ClassifiedRead(k) =>
            /\ InsideExpressionEntry(k) => (yielded[k].reports = <<>> /\ ~Promoted(k))
            /\ ExactFunctionEntry(k) => (yielded[k].reports = <<>> /\ ~Promoted(k))
            /\ (/\ yielded[k].declarationScope = yielded[k].frame
                /\ ~InsideExpressionEntry(k)
                /\ ~ExactFunctionEntry(k))
                   => HasReport(k, {"untrackedReactive", "expectedFunctionGotExpression"})

\* `log(() => <div title={count.x} />)` with a store of the Program: the
\* access is inside the container's expression, two nodes below the entry's
\* node in another function than the declaration, and nothing happens
C23_Witness ==
    \E k \in 1..Len(yielded) :
        /\ ClassifiedRead(k)
        /\ yielded[k].declarationScope # yielded[k].frame
        /\ \E e \in Range(yielded[k].entries) :
               /\ e.expect = "expression"
               /\ InsideEntry(k, e)
               /\ e.node # yielded[k].reference
        /\ yielded[k].reports = <<>>
        /\ ~Promoted(k)
        /\ Done

\* the yield is an invoked read of a signal that is declared outside the
\* exiting frame and that no entry of the frame matches
UnmatchedCrossingRead(k) ==
    /\ InvokedRead(k)
    /\ yielded[k].declarationScope # yielded[k].frame
    /\ ~ExactFunctionEntry(k)
    /\ ~InsideExpressionEntry(k)

\* pushUniqueSignal was called for the variable by the exit that made the yield
PushedUnique(k, variable) ==
    \/ \E r \in 1..Len(registered) :
           registered[r].at = yielded[k].at /\ registered[r].variable = variable
    \/ \E m \in 1..Len(merged) :
           merged[m].at = yielded[k].at /\ merged[m].variable = variable

\* the exiting function of the yield is in the unnamedDerivedSignals of the
\* frame below it, once
AddedToParentFrame(k) ==
    \E f \in Frames :
        /\ f.node = NearestFrameScope(yielded[k].frame)
        /\ Cardinality({i \in 1..Len(f.unnamedDerivedSignals) :
                            f.unnamedDerivedSignals[i] = yielded[k].frame}) = 1

\* C24: an invoked read that crosses a closure boundary and matches no entry
\* of the exiting frame gets no report at that exit, and the exiting function
\* is promoted: by pushUniqueSignal on its variable if it is declared with a
\* name or is the initializer of a variable, by being added to the
\* unnamedDerivedSignals of the parent frame if not; no function is left
\* unpromoted.
C24_EveryShapeIsPromoted ==
    \A k \in 1..Len(yielded) :
        UnmatchedCrossingRead(k) =>
            /\ yielded[k].reports = <<>>
            /\ IF NameOf(yielded[k].frame) # ""
                   THEN PushedUnique(k, NameOf(yielded[k].frame))
                   ELSE AddedToParentFrame(k)

\* the yield is a read of a signal that is not invoked
UninvokedRead(k) ==
    /\ yielded[k].list = "signals"
    /\ ~isWrite(yielded[k].reference)
    /\ tree[yielded[k].reference].ptype
           \notin {"CallExpression", "ArrayExpression in CallExpression"}

\* the context of a read that is a bad context for a signal, "" for any other:
\* a function of the read site and of the nodes above it, not of the entries
BadContext(r) ==
    LET node == tree[r]
    IN  IF node.ptype = "TemplateLiteral" THEN "template literals"
        ELSE IF node.ptype = "BinaryExpression"
                /\ node.operator \in {"<", "<=", ">", ">=", "<<", ">>", ">>>", "+",
                                      "-", "*", "/", "%", "**", "|", "^", "&", "in"}
            THEN "arithmetic or comparisons"
        ELSE IF node.ptype = "UnaryExpression" /\ node.operator \in {"-", "+", "~"}
            THEN "unary expressions"
        ELSE IF node.ptype = "MemberExpression" /\ node.operator = "computed"
            THEN "property accesses"
        ELSE IF /\ node.ptype = "JSXExpressionContainer"
                /\ \/ tree[tree[node.parent].parent].type = "JSXElement"
                   \/ /\ tree[tree[node.parent].parent].type = "JSXAttribute"
                      /\ tree[tree[tree[node.parent].parent].parent].name[1] \in LowerCase
            THEN "JSX"
        ELSE ""

BadSignalFor(r, where) == IF where = "" THEN <<>> ELSE Reported("badSignal", r, where)

\* C25 (as stated): the badSignal report of an uninvoked read of a signal is
\* a function of the context of the read alone, in all five contexts: two
\* runs with the same read and different entries in the exiting frame make
\* the same report.
C25_BadContextWhateverTheEntries ==
    \A k \in 1..Len(yielded) :
        UninvokedRead(k) =>
            yielded[k].reports
                = BadSignalFor(yielded[k].reference, BadContext(yielded[k].reference))

\* C25 (amended): so it is in four contexts; a read that is the expression of
\* a container under an element or in an attribute of a DOM element gets the
\* report unless a function entry of the exiting frame is the read itself;
\* whether the read is inside an expression entry changes nothing.
C25_BadContextUnlessFunctionEntry ==
    \A k \in 1..Len(yielded) :
        UninvokedRead(k) =>
            yielded[k].reports
                = BadSignalFor(
                      yielded[k].reference,
                      IF /\ BadContext(yielded[k].reference) = "JSX"
                         /\ ExactFunctionEntry(k)
                          THEN ""
                          ELSE BadContext(yielded[k].reference))

\* `<div title={-count} />`: the read is inside the expression entry of the
\* container and is reported all the same
C25_Witness ==
    \E k \in 1..Len(yielded) :
        /\ UninvokedRead(k)
        /\ InsideExpressionEntry(k)
        /\ yielded[k].reports
               = Reported("badSignal", yielded[k].reference, "unary expressions")

\* what the tracked-scope rules make of a classified read: nothing if an
\* entry of the exiting frame matches it; one report if none matches and the
\* binding is declared in the exiting frame; no report and the promotion of
\* the exiting function, by its shape, if the binding is declared outside
ClassifiedByTrackedScopes(k) ==
    IF ExactFunctionEntry(k) \/ InsideExpressionEntry(k)
        THEN yielded[k].reports = <<>> /\ ~Promoted(k)
    ELSE IF yielded[k].declarationScope = yielded[k].frame
        THEN /\ yielded[k].reports
                    = Reported(IF \E e \in Range(yielded[k].entries) : InsideEntry(k, e)
                                   THEN "expectedFunctionGotExpression"
                                   ELSE "untrackedReactive",
                               yielded[k].reference, "")
             /\ ~Promoted(k)
    ELSE /\ yielded[k].reports = <<>>
         /\ IF NameOf(yielded[k].frame) # ""
                THEN PushedUnique(k, NameOf(yielded[k].frame))
            ELSE IF tree[tree[yielded[k].frame].parent].type = "Property"
                THEN ~Promoted(k)
            ELSE AddedToParentFrame(k)

\* the yield is a reference of a props binding: the object of a member access
PropsMember(k) ==
    /\ yielded[k].list = "props"
    /\ ~isWrite(yielded[k].reference)
    /\ tree[yielded[k].reference].ptype = "MemberExpression"
    /\ tree[yielded[k].reference].operator \in {"object", "object="}

\* the rules of the props loop, with the given test for an exempt property name
PropsRules(k, exempt) ==
    LET node == tree[yielded[k].reference]
    IN  IF isWrite(yielded[k].reference) \/ (PropsMember(k) /\ node.operator = "object=")
            THEN yielded[k].reports = Reported("noWrite", yielded[k].reference, "")
        ELSE IF PropsMember(k)
            THEN IF exempt THEN yielded[k].reports = <<>> /\ ~Promoted(k)
                           ELSE ClassifiedByTrackedScopes(k)
        ELSE node.ptype \in {"AssignmentExpression", "VariableDeclarator"}
                 => yielded[k].reports
                        = Reported("untrackedReactive", yielded[k].reference, "")

\* the name is initial, default or static with a capitalised word after it
CamelCaseAfterPrefix(name) ==
    \E n \in {6, 7} :
        /\ Len(name) > n
        /\ SubSeq(name, 1, n) \in {<<"i", "n", "i", "t", "i", "a", "l">>,
                                    <<"d", "e", "f", "a", "u", "l", "t">>,
                                    <<"s", "t", "a", "t", "i", "c">>}
        /\ name[n + 1] \in UpperCase

\* C26 (as stated): a write of a props binding and a member access that is
\* the left side of an assignment get one noWrite report; a member access to
\* a property whose name starts with initial, default or static gets nothing;
\* any other member access is classified by the tracked-scope rules, as an
\* invoked read of a signal is; a read of the whole binding under an
\* assignment or a declarator gets one untrackedReactive report.
C26_PropsRulesByPrefix ==
    \A k \in 1..Len(yielded) :
        /\ yielded[k].list = "props"
               => PropsRules(k, StartsWithInitialDefaultStatic(
                                    tree[yielded[k].reference].name))
        /\ InvokedRead(k) => ClassifiedByTrackedScopes(k)

\* C26 (amended): the same, with the exemption for a property whose name is
\* initial, default or static followed by an upper-case letter.
C26_PropsRulesByCamelCasePrefix ==
    \A k \in 1..Len(yielded) :
        /\ yielded[k].list = "props"
               => PropsRules(k, CamelCaseAfterPrefix(tree[yielded[k].reference].name))
        /\ InvokedRead(k) => ClassifiedByTrackedScopes(k)

\* `store.initialValue` as a statement of the Program that declares the store:
\* no entry, no report
C26_Witness ==
    \E k \in 1..Len(yielded) :
        /\ PropsMember(k)
        /\ CamelCaseAfterPrefix(tree[yielded[k].reference].name)
        /\ yielded[k].declarationScope = yielded[k].frame
        /\ yielded[k].entries = <<>>
        /\ yielded[k].reports = <<>>
        /\ Done

-----------------------------------------------------------------------------
(* Permissive tracking (SpecHooks).                                        *)

\* the call of the hook, 0 while the tree has none
HookCall ==
    IF \E i \in 1..Len(tree) : tree[i].callee = "useData"
        THEN CHOOSE i \in 1..Len(tree) : tree[i].callee = "useData"
        ELSE 0

\* the nodes of the subtrees of the arguments of the hook call
InArguments == {n \in 1..Len(tree) : n # HookCall /\ HookCall \in PathToRoot(n)}

\* the node is a function, or an identifier that is declared as a function
ResolvesToFunction(n) ==
    \/ isFunctionNode(n)
    \/ /\ tree[n].type = "Identifier"
       /\ \E d \in 1..Len(tree) :
              /\ tree[d].type = "VariableDeclarator"
              /\ tree[d].var = tree[n].var
              /\ \E f \in ChildrenOf(d) : isFunctionNode(f)

\* an identifier that is the callee of the call above it
CallTarget(n) == tree[n].ptype = "CallExpression" /\ tree[n].operator = "callee"

\* the marks as stated: a bare identifier is marked unless it is a call
\* target or the object of a member access
MarkedAsStated(n) ==
    \/ ResolvesToFunction(n)
    \/ /\ tree[n].type = "Identifier"
       /\ ~CallTarget(n)
       /\ ~(tree[n].ptype = "MemberExpression" /\ tree[n].operator = "object")

\* the marks of the code: a bare identifier is marked unless it is a call
\* target or a child of a member access, its object or its property
MarkedUnlessInMember(n) ==
    \/ ResolvesToFunction(n)
    \/ /\ tree[n].type = "Identifier"
       /\ ~CallTarget(n)
       /\ tree[n].ptype # "MemberExpression"

\* the nodes the entries of the Program frame name
MarkedNodes ==
    UNION {{e.node : e \in Range(f.trackedScopes)} : f \in {g \in Frames : g.node = 1}}

\* the handler of the hook call has run
HookCallHandled == HookCall # 0 /\ Entered(HookCall)

-----------------------------------------------------------------------------
(* Declaration scopes and the stack; the throws (Spec).                    *)

\* the frame of n was on the stack when the yield was made: the stack holds
\* the frames of the exiting node and of the functions and the Program around
\* it that are no synchronous callbacks
OnStackAtYield(k, n) ==
    /\ n \in PathToRoot(yielded[k].frame)
    /\ isProgramOrFunctionNode(n)
    /\ n \notin syncCallbacks

\* the frame of n was popped by a handler that ran before handler number at
PoppedBefore(n, at) ==
    \E j \in 1..Len(popped) : popped[j].frame.node = n /\ popped[j].at < at

\* C28: the declaration scope of every yielded reference is the node of a
\* frame that is on the stack when the reference is yielded, and no binding
\* is pushed with a declaration scope that is a synchronous callback or a
\* function whose frame was popped before.
C28_DeclarationScopeOnStack ==
    /\ \A k \in 1..Len(yielded) : OnStackAtYield(k, yielded[k].declarationScope)
    /\ \A r \in 1..Len(registered) :
           /\ registered[r].declarationScope \notin syncCallbacks
           /\ ~PoppedBefore(registered[r].declarationScope, registered[r].at)

\* the exiting frame of the yield is a function with a frame below it
FunctionFrameWithParent(k) ==
    /\ isFunctionNode(yielded[k].frame)
    /\ \E n \in PathToRoot(tree[yielded[k].frame].parent) : OnStackAtYield(k, n)

\* C29: no run throws.  The exiting frame of a yielded read that is declared
\* in another frame is a function with a frame below it, and every merge that
\* pushUniqueSignal asks for finds one of the two scopes on the stack.
C29_NoInternalFault ==
    /\ fault = "none"
    /\ \A k \in 1..Len(yielded) :
           (/\ ~isWrite(yielded[k].reference)
            /\ yielded[k].declarationScope # yielded[k].frame)
               => FunctionFrameWithParent(k)
    /\ \A m \in 1..Len(merged) :
           OnStackOf(merged[m], merged[m].a) \/ OnStackOf(merged[m], merged[m].b)

\* the bindings pushed by the exit handler of a frame, while it drains
RegisteredOnExit == {r \in 1..Len(registered) : nodeQueue[registered[r].at].exit}

\* the handler that pushed the binding has popped its frame
FramePoppedAfter(r) == \E j \in 1..Len(popped) : popped[j].at = registered[r].at

\* C30: when the exit handler that pushed a derived-signal binding has popped
\* its frame, the binding holds no reference that is located in that frame:
\* the drains of the same exit have yielded them all.
C30_SelfReferencesConsumed ==
    \A r \in RegisteredOnExit :
        FramePoppedAfter(r) =>
            \A reference \in HeldBy(r) :
                NearestFrameScope(reference) # nodeQueue[registered[r].at].node

====
